---- MODULE Spec2Model ----
(***************************************************************************)
(* Level-name resolution and play-statistics capture of the launcher.      *)
(*                                                                         *)
(* Text is modelled as a sequence of one-character strings, so that        *)
(* hashing, key building and parsing are computed character by character   *)
(* as the TypeScript does.                                                  *)
(***************************************************************************)
EXTENDS Integers, Sequences, FiniteSets, TLC

(***************************************************************************)
(* Characters and strings                                                  *)
(***************************************************************************)
\* The printable ASCII characters, code 32 (space) to 126 (~); position 65
\* (code 96, the grave accent) is a placeholder, no text of the model uses it.
AsciiChars ==
  << " ", "!", "\"", "#", "$", "%", "&", "'", "(", ")", "*", "+", ",", "-", ".", "/",
     "0", "1", "2", "3", "4", "5", "6", "7", "8", "9", ":", ";", "<", "=", ">", "?",
     "@", "A", "B", "C", "D", "E", "F", "G", "H", "I", "J", "K", "L", "M", "N", "O",
     "P", "Q", "R", "S", "T", "U", "V", "W", "X", "Y", "Z", "[", "\\", "]", "^", "_",
     "GRAVE", "a", "b", "c", "d", "e", "f", "g", "h", "i", "j", "k", "l", "m", "n", "o",
     "p", "q", "r", "s", "t", "u", "v", "w", "x", "y", "z", "{", "|", "}", "~" >>

NL == "\n"

\* String.prototype.charCodeAt for the characters of the model.
CharCodeTable ==
  [c \in {AsciiChars[i] : i \in 1..95} \cup {NL} |->
     IF c = NL THEN 10 ELSE 31 + (CHOOSE i \in 1..95 : AsciiChars[i] = c)]

charCodeAt(c) == CharCodeTable[c]

FromCode(n) == IF n = 10 THEN NL ELSE AsciiChars[n - 31]

IsDigit(c) == charCodeAt(c) >= 48 /\ charCodeAt(c) <= 57
IsUpper(c) == charCodeAt(c) >= 65 /\ charCodeAt(c) <= 90
IsLower(c) == charCodeAt(c) >= 97 /\ charCodeAt(c) <= 122
\* \w of a JavaScript regular expression
IsWordChar(c) == IsDigit(c) \/ IsUpper(c) \/ IsLower(c) \/ c = "_"
\* \s of a JavaScript regular expression (the characters of the model)
IsSpace(c) == c = " " \/ c = NL

UpperChar(c) == IF IsLower(c) THEN FromCode(charCodeAt(c) - 32) ELSE c
LowerChar(c) == IF IsUpper(c) THEN FromCode(charCodeAt(c) + 32) ELSE c

toUpperCase(s) == [i \in 1..Len(s) |-> UpperChar(s[i])]
toLowerCase(s) == [i \in 1..Len(s) |-> LowerChar(s[i])]

\* s.slice(i - 1): the suffix of s that starts at the 1-based position i
From(s, i) == IF i > Len(s) THEN << >> ELSE SubSeq(s, i, Len(s))

startsWith(s, p) == Len(s) >= Len(p) /\ SubSeq(s, 1, Len(p)) = p
endsWith(s, p) == Len(s) >= Len(p) /\ SubSeq(s, Len(s) - Len(p) + 1, Len(s)) = p

\* Number of leading characters of s that satisfy \s
RECURSIVE SpaceRun(_)
SpaceRun(s) == IF s # << >> /\ IsSpace(s[1]) THEN 1 + SpaceRun(Tail(s)) ELSE 0

RECURSIVE WordRun(_)
WordRun(s) == IF s # << >> /\ IsWordChar(s[1]) THEN 1 + WordRun(Tail(s)) ELSE 0

RECURSIVE DigitRun(_)
DigitRun(s) == IF s # << >> /\ IsDigit(s[1]) THEN 1 + DigitRun(Tail(s)) ELSE 0

RECURSIVE TrimEnd(_)
TrimEnd(s) == IF s # << >> /\ IsSpace(s[Len(s)]) THEN TrimEnd(SubSeq(s, 1, Len(s) - 1)) ELSE s

trim(s) == TrimEnd(From(s, SpaceRun(s) + 1))

\* content.split(sep) for a one-character separator
RECURSIVE split(_, _)
split(s, sep) ==
  IF \E i \in 1..Len(s) : s[i] = sep
    THEN LET i == CHOOSE k \in 1..Len(s) : s[k] = sep /\ \A j \in 1..(k - 1) : s[j] # sep
         IN  << SubSeq(s, 1, i - 1) >> \o split(From(s, i + 1), sep)
    ELSE << s >>

\* Lexicographic order of strings by character code (Array.prototype.sort default)
RECURSIVE StrLess(_, _)
StrLess(a, b) ==
  IF b = << >> THEN FALSE
  ELSE IF a = << >> THEN TRUE
  ELSE IF a[1] # b[1] THEN charCodeAt(a[1]) < charCodeAt(b[1])
  ELSE StrLess(Tail(a), Tail(b))

\* all the orders in which a set of entries or keys may be enumerated
Orders(S) == {q \in [1..Cardinality(S) -> S] : \A i, j \in 1..Cardinality(S) : q[i] = q[j] => i = j}

\* Number.prototype.toString(10) of an integer
RECURSIVE DecDigits(_)
DecDigits(n) == IF n < 10 THEN << FromCode(48 + n) >>
                ELSE DecDigits(n \div 10) \o << FromCode(48 + (n % 10)) >>

NumberToString(n) == IF n < 0 THEN << "-" >> \o DecDigits(0 - n) ELSE DecDigits(n)

\* JSON.stringify of a string made of characters that need no escape
\* JSON.stringify escapes the quote, the backslash and the line feed
EscapeChar(c) ==
  IF c = "\"" THEN << "\\", "\"" >>
  ELSE IF c = "\\" THEN << "\\", "\\" >>
  ELSE IF c = NL THEN << "\\", "n" >>
  ELSE << c >>

RECURSIVE JSONEscape(_)
JSONEscape(s) == IF s = << >> THEN << >> ELSE EscapeChar(s[1]) \o JSONEscape(Tail(s))

JSONString(s) == << "\"" >> \o JSONEscape(s) \o << "\"" >>

(***************************************************************************)
(* Text literals of the source                                             *)
(***************************************************************************)
TxtSaves == << "s", "a", "v", "e", "s" >>
TxtStats == << "s", "t", "a", "t", "s" >>
TxtUnknown == << "u", "n", "k", "n", "o", "w", "n" >>
ExtZds == << ".", "z", "d", "s" >>
ExtJson == << ".", "j", "s", "o", "n" >>
LevelNamesFile == << "l", "e", "v", "e", "l", "-", "n", "a", "m", "e", "s", ".", "j", "s", "o", "n" >>
TxtMAP01 == << "M", "A", "P", "0", "1" >>
TxtMAP == << "M", "A", "P" >>

\* settings.value.libraryPath, as its path segments (the default location)
libraryPath ==
  << << "U", "s", "e", "r", "s" >>, << "u" >>, << "L", "i", "b", "r", "a", "r", "y" >>,
     << "r", "u", "s", "t", "e", "d", "-", "d", "o", "o", "m", "-", "l", "a", "u", "n", "c", "h", "e", "r" >> >>

(***************************************************************************)
(* statsSchema                                                             *)
(***************************************************************************)
ITYTD == << "I", "T", "Y", "T", "D" >>
HNTR == << "H", "N", "T", "R" >>
HMP == << "H", "M", "P" >>
UV == << "U", "V" >>
NM == << "N", "M" >>

SkillLevelSchema == {ITYTD, HNTR, HMP, UV, NM}

SKILL_FROM_NUMBER == [n \in 0..4 |-> << ITYTD, HNTR, HMP, UV, NM >>[n + 1]]

StatFields == {"kills", "totalKills", "items", "totalItems", "secrets", "totalSecrets", "timeTics"}

\* z.number().int().nonnegative() on every statistic of a level
LevelPlayStatsSchema(l) == \A f \in StatFields : l[f] >= 0

\* PlaySessionSchema.safeParse(...).success
PlaySessionSchema(s) ==
  /\ s.schemaVersion = 1
  /\ s.skill \in SkillLevelSchema
  /\ Len(s.levels) >= 1
  /\ \A i \in 1..Len(s.levels) : LevelPlayStatsSchema(s.levels[i])

(***************************************************************************)
(* generateSessionHash                                                     *)
(***************************************************************************)
JSONKey(k) == JSONString(k) \o << ":" >>

\* JSON.stringify of one element of payload.levels
\* a payload that carries the display name
LevelPayload_withName(l) ==
  << "{" >> \o JSONKey(<< "i", "d" >>) \o JSONString(l.id)
  \o << "," >> \o JSONKey(<< "n" >>) \o JSONString(l.name)
  \o << "," >> \o JSONKey(<< "k" >>) \o NumberToString(l.kills)
  \o << "," >> \o JSONKey(<< "t" >>) \o NumberToString(l.timeTics)
  \o << "}" >>

LevelPayload(l) ==
  << "{" >> \o JSONKey(<< "i", "d" >>) \o JSONString(l.id)
  \o << "," >> \o JSONKey(<< "k" >>) \o NumberToString(l.kills)
  \o << "," >> \o JSONKey(<< "t", "k" >>) \o NumberToString(l.totalKills)
  \o << "," >> \o JSONKey(<< "i" >>) \o NumberToString(l.items)
  \o << "," >> \o JSONKey(<< "t", "i" >>) \o NumberToString(l.totalItems)
  \o << "," >> \o JSONKey(<< "s" >>) \o NumberToString(l.secrets)
  \o << "," >> \o JSONKey(<< "t", "s" >>) \o NumberToString(l.totalSecrets)
  \o << "," >> \o JSONKey(<< "t" >>) \o NumberToString(l.timeTics)
  \o << "}" >>

RECURSIVE JoinLevels(_)
JoinLevels(ls) ==
  IF ls = << >> THEN << >>
  ELSE IF Len(ls) = 1 THEN LevelPayload(ls[1])
  ELSE LevelPayload(ls[1]) \o << "," >> \o JoinLevels(Tail(ls))

\* JSON.stringify(payload)
SessionPayload(session) ==
  << "{" >> \o JSONKey(<< "w", "a", "d" >>) \o JSONString(session.wadSlug)
  \o << "," >> \o JSONKey(<< "s", "k", "i", "l", "l" >>) \o JSONString(session.skill)
  \o << "," >> \o JSONKey(<< "s", "t", "a", "r", "t" >>) \o JSONString(session.startLevel)
  \o << "," >> \o JSONKey(<< "l", "e", "v", "e", "l", "s" >>)
  \o << "[" >> \o JoinLevels(session.levels) \o << "]" >> \o << "}" >>

\* An unsigned 32-bit value is kept as << high 16 bits, low 16 bits >>.
Half == 65536

\* hash = ((hash << 5) + hash) + code; hash = hash >>> 0
Djb2Step(h, code) ==
  LET lo == 33 * h[2] + code
      hi == 33 * h[1] + (lo \div Half)
  IN  << hi % Half, lo % Half >>

IsUint32(h) == h[1] \in 0..(Half - 1) /\ h[2] \in 0..(Half - 1)

\* for (let i = 0; i < str.length; i++) over the positions lo..hi of str.
\* The range is halved and the intermediate hash evaluated before the second
\* half, which keeps the evaluation depth logarithmic in the string length.
RECURSIVE Djb2Range(_, _, _, _)
Djb2Range(h, str, lo, hi) ==
  IF lo > hi THEN h
  ELSE IF lo = hi THEN Djb2Step(h, charCodeAt(str[lo]))
  ELSE LET mid == (lo + hi) \div 2
           left == Djb2Range(h, str, lo, mid)
       IN  IF IsUint32(left) THEN Djb2Range(left, str, mid + 1, hi) ELSE left

Djb2(h, str) == Djb2Range(h, str, 1, Len(str))

HexDigits == << "0", "1", "2", "3", "4", "5", "6", "7", "8", "9", "a", "b", "c", "d", "e", "f" >>

\* the four hexadecimal digits of a 16-bit value
Hex4(n) == << HexDigits[(n \div 4096) + 1], HexDigits[((n \div 256) % 16) + 1],
              HexDigits[((n \div 16) % 16) + 1], HexDigits[(n % 16) + 1] >>

\* hash.toString(16).padStart(8, "0")
Hex8(h) == Hex4(h[1]) \o Hex4(h[2])

\* 5381 = 0 * 65536 + 5381
generateSessionHash(session) == Hex8(Djb2(<< 0, 5381 >>, SessionPayload(session)))

(***************************************************************************)
(* parseLevelNameFromComment                                               *)
(***************************************************************************)
\* Length of the match of (MAP\d+|E\d+M\d+) at the start of s (flag i), 0 if none
LevelIdMatch(s) ==
  IF startsWith(toUpperCase(s), TxtMAP) /\ DigitRun(From(s, 4)) >= 1
    THEN 3 + DigitRun(From(s, 4))
  ELSE IF s # << >> /\ UpperChar(s[1]) = "E" /\ DigitRun(From(s, 2)) >= 1
    THEN LET d1 == DigitRun(From(s, 2))
             r == From(s, 2 + d1)
         IN  IF r # << >> /\ UpperChar(r[1]) = "M" /\ DigitRun(Tail(r)) >= 1
               THEN 2 + d1 + DigitRun(Tail(r))
               ELSE 0
  ELSE 0

\* (.+)$ matches t: at least one character, none of them a line terminator
DotPlusToEnd(t) == t # << >> /\ \A i \in 1..Len(t) : t[i] # NL

\* comment.match(/^(MAP\d+|E\d+M\d+)\s*-\s*(.+)$/i): no result is {}, a result
\* is { [id, name] }
parseLevelNameFromComment(comment) ==
  LET \* \s* is greedy and gives characters back until (.+)$ matches
      Name(rest, skips) ==
        IF skips = {} THEN {}
        ELSE {trim(From(rest, (CHOOSE k \in skips : \A m \in skips : m <= k) + 1))}
      AfterDash(n, rest) ==
        {[id |-> toUpperCase(SubSeq(comment, 1, n)), name |-> x] :
           x \in Name(rest, {j \in 0..SpaceRun(rest) : DotPlusToEnd(From(rest, j + 1))})}
      AfterSpaces(n, afterSp) ==
        IF n = 0 \/ afterSp = << >> \/ afterSp[1] # "-" THEN {} ELSE AfterDash(n, Tail(afterSp))
      AfterId(n, afterId) == AfterSpaces(n, From(afterId, SpaceRun(afterId) + 1))
      Matched(n) == AfterId(n, From(comment, n + 1))
  IN  Matched(LevelIdMatch(comment))

(***************************************************************************)
(* Files of the library                                                    *)
(***************************************************************************)
\* A level-name map is a function from level id to name; new Map() is << >>.
EmptyMap == << >>

MapHas(m, k) == k \in DOMAIN m

\* Map.prototype.set
MapSet(m, k, v) == [x \in DOMAIN m \cup {k} |-> IF x = k THEN v ELSE m[x]]

getSavesDir(slug) == libraryPath \o << TxtSaves, slug >>
\* one stats directory for every slug
getStatsDir_shared(slug) == libraryPath \o << TxtStats, << "s", "1" >> >>

getStatsDir(slug) == libraryPath \o << TxtStats, slug >>

\* 0-based pathParts.indexOf(x), -1 when absent
IndexOf(parts, x) ==
  IF \E i \in 1..Len(parts) : parts[i] = x
    THEN (CHOOSE i \in 1..Len(parts) : parts[i] = x /\ \A j \in 1..(i - 1) : parts[j] # x) - 1
    ELSE 0 - 1

\* new Date(mtime).toISOString() for a modification time of 0..59 seconds
\* after the epoch
toISOString(mtime) ==
  << "1", "9", "7", "0", "-", "0", "1", "-", "0", "1", "T", "0", "0", ":", "0", "0", ":" >>
  \o << FromCode(48 + (mtime \div 10)), FromCode(48 + (mtime % 10)) >>
  \o << ".", "0", "0", "0", "Z" >>

(***************************************************************************)
(* parseSaveForStats                                                       *)
(***************************************************************************)
\* A save file is [mtime, statOk, zipOk, globals, info]: statOk is whether
\* stat() succeeds, zipOk whether readFile and unzipSync succeed; globals is
\* {} when the archive has no globals.json, else {g} with
\*   g = [valid, skill, startlevel, levels]
\* (valid: JSON.parse succeeds; skill and startlevel are {} when the property
\* is absent, else {value}; levels is statistics.levels); info is {} or
\* {[valid, Comment]} for info.json.

\* statsLevels.map(...) of one raw level record
BuildLevel(level, levelNameMap) ==
  LET id == toUpperCase(level.levelname)
  IN  [id |-> id,
       name |-> IF MapHas(levelNameMap, id) THEN levelNameMap[id] ELSE id,
       kills |-> level.killcount, totalKills |-> level.totalkills,
       items |-> level.itemcount, totalItems |-> level.totalitems,
       secrets |-> level.secretcount, totalSecrets |-> level.totalsecrets,
       timeTics |-> level.leveltime]

\* the result is {} for null, else {session}
parseSaveForStats(savePath, saveFileName, file) ==
  IF ~file.readOk \/ ~file.zipOk \/ file.globals = {} THEN {}
  ELSE LET globals == CHOOSE g \in file.globals : TRUE
       IN  IF ~globals.valid \/ globals.levels = << >> THEN {}
           ELSE
             LET statsLevels == globals.levels
                 skillNum == IF globals.skill = {} THEN 2 ELSE CHOOSE n \in globals.skill : TRUE
                 skill == IF skillNum \in DOMAIN SKILL_FROM_NUMBER THEN SKILL_FROM_NUMBER[skillNum] ELSE HMP
                 startLevel == IF globals.startlevel = {} THEN statsLevels[1].levelname
                               ELSE CHOOSE x \in globals.startlevel : TRUE
                 Names(parsed) == IF parsed = {} THEN EmptyMap
                                  ELSE MapSet(EmptyMap, (CHOOSE x \in parsed : TRUE).id,
                                              (CHOOSE x \in parsed : TRUE).name)
                 Comment(info) == IF info.valid THEN parseLevelNameFromComment(info.Comment) ELSE {}
                 levelNameMap == IF file.info = {} THEN EmptyMap
                                 ELSE Names(Comment(CHOOSE x \in file.info : TRUE))
                 pathParts == savePath
                 slugIndex == IndexOf(pathParts, TxtSaves) + 1
                 wadSlug == IF slugIndex > 0 THEN pathParts[slugIndex + 1] ELSE TxtUnknown
             IN  {[schemaVersion |-> 1,
                   wadSlug |-> wadSlug,
                   startLevel |-> toUpperCase(startLevel),
                   skill |-> skill,
                   sourceFile |-> saveFileName,
                   levels |-> [i \in 1..Len(statsLevels) |-> BuildLevel(statsLevels[i], levelNameMap)]]}

(***************************************************************************)
(* parseMapinfoContent                                                     *)
(***************************************************************************)
TxtLevelname == << "l", "e", "v", "e", "l", "n", "a", "m", "e" >>
TxtMapLower == << "m", "a", "p" >>
MAPINFO == << "M", "A", "P", "I", "N", "F", "O" >>
ZMAPINFO == << "Z" >> \o MAPINFO
EMAPINFO == << "E" >> \o MAPINFO
UMAPINFO == << "U" >> \o MAPINFO

\* trimmed.match(/^\[(\w+)\]$/): the captured group, << >> when no match
SectionMatch(trimmed) ==
  IF /\ Len(trimmed) >= 3
     /\ trimmed[1] = "[" /\ trimmed[Len(trimmed)] = "]"
     /\ WordRun(Tail(trimmed)) = Len(trimmed) - 2
    THEN SubSeq(trimmed, 2, Len(trimmed) - 1)
    ELSE << >>

\* The text after /^levelname\s*=/i at the start of trimmed, as {} when the
\* line does not start that way, else {rest}
AfterLevelnameEquals(trimmed) ==
  IF ~startsWith(toLowerCase(trimmed), TxtLevelname) THEN {}
  ELSE LET r == From(trimmed, Len(TxtLevelname) + 1)
           e == From(r, SpaceRun(r) + 1)
       IN  IF e # << >> /\ e[1] = "=" THEN {Tail(e)} ELSE {}

\* trimmed.match(/^levelname\s*=\s*(.+)/i): {} or {captured group}
EmapinfoNameMatch(trimmed) ==
  LET \* \s* is greedy and gives back until (.+) has a character
      Group(rest, skips) ==
        IF skips = {} THEN {}
        ELSE {From(rest, (CHOOSE j \in skips : \A m \in skips : m <= j) + 1)}
      Rest(rest) == Group(rest, {j \in 0..SpaceRun(rest) : From(rest, j + 1) # << >>})
      After(after) == IF after = {} THEN {} ELSE Rest(CHOOSE x \in after : TRUE)
  IN  After(AfterLevelnameEquals(trimmed))

\* levelName.replace(new RegExp(`^${currentMap}:\\s*`, "i"), "")
StripIdPrefix(levelName, currentMap) ==
  IF /\ Len(levelName) > Len(currentMap)
     /\ toUpperCase(SubSeq(levelName, 1, Len(currentMap))) = toUpperCase(currentMap)
     /\ levelName[Len(currentMap) + 1] = ":"
    THEN LET r == From(levelName, Len(currentMap) + 2) IN From(r, SpaceRun(r) + 1)
    ELSE levelName

\* one line of the EMAPINFO loop; st = [currentMap, levels], currentMap << >> is null
EmapinfoLine(st, line) ==
  LET Named(nameMatch) ==
        IF st.currentMap # << >> /\ nameMatch # {}
          THEN [st EXCEPT !.levels = MapSet(st.levels, st.currentMap,
                            StripIdPrefix(trim(CHOOSE x \in nameMatch : TRUE), st.currentMap))]
          ELSE st
      Section(trimmed, sectionMatch) ==
        IF sectionMatch # << >> THEN [st EXCEPT !.currentMap = toUpperCase(sectionMatch)]
        ELSE Named(EmapinfoNameMatch(trimmed))
      Trimmed(trimmed) == Section(trimmed, SectionMatch(trimmed))
  IN  Trimmed(trim(line))

\* trimmed.match(/^MAP\s+(\w+)/i): the captured group, << >> when no match
UmapinfoMapMatch(trimmed) ==
  LET Word(sp, w) == IF sp >= 1 /\ WordRun(w) >= 1 THEN SubSeq(w, 1, WordRun(w)) ELSE << >>
      AfterMap(r) == Word(SpaceRun(r), From(r, SpaceRun(r) + 1))
  IN  IF startsWith(toUpperCase(trimmed), TxtMAP) THEN AfterMap(From(trimmed, 4)) ELSE << >>

\* Number of leading characters of s other than the double quote
RECURSIVE NonQuoteRun(_)
NonQuoteRun(s) == IF s # << >> /\ s[1] # "\"" THEN 1 + NonQuoteRun(Tail(s)) ELSE 0

\* trimmed.match(/^levelname\s*=\s*"?([^"]+)"?/i): {} or {captured group}.
\* \s* and "? are greedy; the first alternative in backtracking order for
\* which [^"]+ has a character is the match.
UmapinfoNameMatch(trimmed) ==
  LET Group(start) == SubSeq(start, 1, NonQuoteRun(start))
      Best(rest, alts) ==
        IF alts = {} THEN {}
        ELSE {Group(From(rest, a[1] + a[2] + 1)) :
                a \in {x \in alts : \A b \in alts : b[1] < x[1] \/ (b[1] = x[1] /\ b[2] <= x[2])}}
      Ok(rest, j, q) ==
        /\ q = 1 => startsWith(From(rest, j + 1), << "\"" >>)
        /\ NonQuoteRun(From(rest, j + q + 1)) >= 1
      Rest(rest) == Best(rest, {a \in (0..SpaceRun(rest)) \X {0, 1} : Ok(rest, a[1], a[2])})
      After(after) == IF after = {} THEN {} ELSE Rest(CHOOSE x \in after : TRUE)
  IN  After(AfterLevelnameEquals(trimmed))

\* one line of the UMAPINFO loop
UmapinfoLine(st, line) ==
  LET Named(nameMatch) ==
        IF st.currentMap # << >> /\ nameMatch # {}
          THEN [st EXCEPT !.levels = MapSet(st.levels, st.currentMap, trim(CHOOSE x \in nameMatch : TRUE))]
          ELSE st
      Map(trimmed, mapMatch) ==
        IF mapMatch # << >> THEN [st EXCEPT !.currentMap = toUpperCase(mapMatch)]
        ELSE Named(UmapinfoNameMatch(trimmed))
      Trimmed(trimmed) == Map(trimmed, UmapinfoMapMatch(trimmed))
  IN  Trimmed(trim(line))

\* for (const line of content.split("\n")) { ... } from line i on
RECURSIVE EmapinfoLines(_, _, _)
EmapinfoLines(st, lines, i) ==
  IF i > Len(lines) THEN st ELSE EmapinfoLines(EmapinfoLine(st, lines[i]), lines, i + 1)

RECURSIVE UmapinfoLines(_, _, _)
UmapinfoLines(st, lines, i) ==
  IF i > Len(lines) THEN st ELSE UmapinfoLines(UmapinfoLine(st, lines[i]), lines, i + 1)

\* /map\s+(\w+)\s+"([^"]+)"/gi matched at position p of content:
\* {} or {[at, id, name, next]} with next the position after the match
MapinfoMatchAt(content, p) ==
  LET Quoted(id, r4, n, consumed) ==
        IF r4 # << >> /\ r4[1] = "\"" /\ n >= 1 /\ Len(r4) >= n + 2
          THEN {[at |-> p, id |-> id, name |-> SubSeq(r4, 2, n + 1), next |-> p + consumed + n + 2]}
          ELSE {}
      Spaces2(id, r3, sp2, consumed) ==
        IF sp2 >= 1
          THEN Quoted(id, From(r3, sp2 + 1), NonQuoteRun(From(r3, sp2 + 2)), consumed + sp2)
          ELSE {}
      Id(r2, w, consumed) ==
        IF w >= 1 THEN Spaces2(SubSeq(r2, 1, w), From(r2, w + 1), SpaceRun(From(r2, w + 1)), consumed + w)
        ELSE {}
      Spaces1(r1, sp1) ==
        IF sp1 >= 1 THEN Id(From(r1, sp1 + 1), WordRun(From(r1, sp1 + 1)), 3 + sp1) ELSE {}
      At(s) ==
        IF startsWith(toLowerCase(s), TxtMapLower) THEN Spaces1(From(s, 4), SpaceRun(From(s, 4)))
        ELSE {}
  IN  At(From(content, p))

\* while ((match = pattern.exec(content)) !== null) levels.set(...), with
\* pattern.lastIndex at position from
RECURSIVE MapinfoMatches(_, _, _)
MapinfoMatches(levels, content, from) ==
  LET Set(match) == MapinfoMatches(MapSet(levels, toUpperCase(match.id), match.name), content, match.next)
      First(found) ==
        IF found = {} THEN levels
        ELSE Set(CHOOSE x \in found : \A y \in found : x.at <= y.at)
  IN  First(UNION {MapinfoMatchAt(content, p) : p \in from..Len(content)})

parseMapinfoContent(lumpName, content) ==
  IF lumpName = EMAPINFO
    THEN EmapinfoLines([currentMap |-> << >>, levels |-> EmptyMap], split(content, NL), 1).levels
  ELSE IF lumpName = UMAPINFO
    THEN UmapinfoLines([currentMap |-> << >>, levels |-> EmptyMap], split(content, NL), 1).levels
  ELSE MapinfoMatches(EmptyMap, content, 1)

(***************************************************************************)
(* State                                                                   *)
(***************************************************************************)
VARIABLES
  savesDir,       \* slug -> [exists, readable, files]: <library>/saves/<slug>
  statsDir,       \* slug -> [exists, files]: <library>/stats/<slug>
  capturedClean,  \* slug -> the last captureStats(slug) completed without a failed
                  \*         write and the save directory is unchanged since
  ledger,         \* <library>/launcher-downloads.json: [state, downloads]
  library,        \* file name -> the installed file <library>/<file name>
  levelNamesStore,\* slug -> <library>/level-names/<slug>.json: {} or {map}
  levelNamesCache,\* levelNamesCache.value: slug -> map, for the cached slugs
  nullResolved,   \* the slugs whose latest loadLevelNames returned null after
                  \* recomputation
  input,          \* the arguments of the pure function under study
  calls,          \* the invocations in flight, for the study of overlapping calls
  downloads,      \* downloads.value.downloads of useDownload: slug -> [filename]
  downloading,    \* downloading.value of useDownload: the set of slugs
  isRunning,      \* isRunning.value of useGZDoom
  last            \* the operation performed last, its result and its effects

vars == << savesDir, statsDir, capturedClean, ledger, library, levelNamesStore,
           levelNamesCache, nullResolved, input, calls, downloads, downloading, isRunning, last >>

statsVars == << savesDir, statsDir, capturedClean >>
namesVars == << ledger, library, levelNamesStore, levelNamesCache, nullResolved >>
appVars == << downloads, downloading, isRunning >>

Slugs == { << "s", "1" >>, << "s", "2" >> }

\* The slugs whose saves the engine writes
StatsSlugs == { << "s", "1" >> }

(***************************************************************************)
(* Save files the engine writes                                            *)
(***************************************************************************)
RawLevel(name, k, tk, t) ==
  [levelname |-> name, killcount |-> k, totalkills |-> tk, itemcount |-> 0, totalitems |-> 1,
   secretcount |-> 0, totalsecrets |-> 0, leveltime |-> t]

Globals(skill, start, levels) ==
  [valid |-> TRUE, skill |-> skill, startlevel |-> start, levels |-> levels]

SaveFile(mtime, globals, info) ==
  [mtime |-> mtime, statOk |-> TRUE, readOk |-> TRUE, zipOk |-> TRUE, globals |-> globals,
   info |-> info]

TxtMAP02 == << "M", "A", "P", "0", "2" >>
TxtEntryway == << "E", "n", "t", "r", "y", "w", "a", "y" >>
TxtMap01Lower == << "m", "a", "p", "0", "1" >>
CommentEntryway == TxtMAP01 \o << " ", "-", " " >> \o TxtEntryway

NameAuto == << "a", "u", "t", "o", "0", "0" >> \o ExtZds
NameSave == << "s", "a", "v", "e", "0", "1" >> \o ExtZds
NameNotes == << "n", "o", "t", "e", "s", ".", "t", "x", "t" >>

\* MAP01 on HMP with 1 of 2 kills after 5 tics; the autosave names the level
SaveEntry == SaveFile(10, {Globals({2}, {TxtMAP01}, << RawLevel(TxtMAP01, 1, 2, 5) >>)},
                      {[valid |-> TRUE, Comment |-> CommentEntryway]})
\* the same gameplay state saved again by hand: other name, other time, no
\* info.json, the skill left to its default, the level name in lower case
SaveAgain == SaveFile(20, {Globals({}, {}, << RawLevel(TxtMap01Lower, 1, 2, 5) >>)}, {})
\* a later state of the same level: all kills, slower
SaveSlow == SaveFile(30, {Globals({2}, {TxtMAP01}, << RawLevel(TxtMAP01, 2, 2, 9) >>)}, {})
\* all kills and faster, and a second level
SaveFast == SaveFile(40, {Globals({2}, {TxtMAP01},
                          << RawLevel(TxtMAP01, 2, 2, 7), RawLevel(TxtMAP02, 0, 3, 1) >>)}, {})
\* an archive that cannot be unzipped
SaveCorrupt == [SaveFile(50, {}, {}) EXCEPT !.zipOk = FALSE]

SaveCatalogue ==
  { [name |-> NameAuto, file |-> SaveEntry],
    [name |-> NameAuto, file |-> SaveSlow],
    [name |-> NameAuto, file |-> SaveCorrupt],
    [name |-> NameSave, file |-> SaveAgain],
    [name |-> NameSave, file |-> SaveFast],
    [name |-> NameNotes, file |-> SaveSlow] }

(***************************************************************************)
(* useStats: loadLevelNames, saveLevelNames, sessionHashExists             *)
(***************************************************************************)
\* A file of a stats directory is [kind, data]: kind "names" holds a
\* level-name map, kind "session" a play session.
NamesFile(names) == [kind |-> "names", data |-> names]
SessionFile(session) == [kind |-> "session", data |-> session]

\* the session files of a stats directory
SessionFilesOf(dir) == {n \in DOMAIN dir.files : dir.files[n].kind = "session"}

\* loadLevelNames(statsDir) of useStats
statsLoadLevelNames(dir) ==
  IF dir.exists /\ LevelNamesFile \in DOMAIN dir.files
    THEN dir.files[LevelNamesFile].data
    ELSE EmptyMap

\* a lookup that never finds the session file
sessionHashExists_never(dir, hash) == FALSE

sessionHashExists(dir, hash) == dir.exists /\ (hash \o ExtJson) \in DOMAIN dir.files

\* writeTextFile(path, text) into a directory, when it succeeds
WriteFile(dir, name, content) ==
  [dir EXCEPT !.files = [n \in DOMAIN dir.files \cup {name} |->
                           IF n = name THEN content ELSE dir.files[n]]]

(***************************************************************************)
(* Installed files and the download ledger                                 *)
(***************************************************************************)
\* An installed file is [present, wad, zip]: present is whether readFile
\* succeeds; wad is {} when the bytes are no level container, else {lumps}
\* with lumps the sequence of [name, text] of its directory; zip is {} when
\* unzipSync throws, else {entries} with entries the sequence of [name, data]
\* in archive order, data being [wad, text] (the bytes read as a container
\* and as text).
Lump(name, text) == [name |-> name, text |-> text]
ZipEntry(name, wad, text) == [name |-> name, data |-> [wad |-> wad, text |-> text]]
WadFile(lumps) == [present |-> TRUE, wad |-> {lumps}, zip |-> {}]
ZipFile(entries) == [present |-> TRUE, wad |-> {}, zip |-> {entries}]
NoFile == [present |-> FALSE, wad |-> {}, zip |-> {}]
\* present, but neither a level container nor an archive
JunkFile == [present |-> TRUE, wad |-> {}, zip |-> {}]

mapinfoLumps == << MAPINFO, ZMAPINFO, EMAPINFO, UMAPINFO >>

IsMapinfoLump(name) == \E i \in 1..Len(mapinfoLumps) : mapinfoLumps[i] = name

\* a merge in which the names found later replace the names found earlier
MergeNew_overwrite(allLevels, levels) ==
  [k \in DOMAIN allLevels \cup DOMAIN levels |-> IF k \in DOMAIN levels THEN levels[k] ELSE allLevels[k]]

\* for (const [mapId, levelName] of levels) if (!allLevels.has(mapId))
\* allLevels.set(mapId, levelName)
MergeNew(allLevels, levels) ==
  [k \in DOMAIN allLevels \cup DOMAIN levels |-> IF k \in DOMAIN allLevels THEN allLevels[k] ELSE levels[k]]

\* the names of the map-definition lumps of a level container, lump by lump
RECURSIVE LumpNames(_, _, _)
LumpNames(allLevels, lumps, i) ==
  IF i > Len(lumps) THEN allLevels
  ELSE LET Merged(name) ==
             IF IsMapinfoLump(name)
               THEN MergeNew(allLevels, parseMapinfoContent(name, lumps[i].text))
               ELSE allLevels
       IN  LumpNames(Merged(toUpperCase(lumps[i].name)), lumps, i + 1)

\* extractLevelNamesFromData(data) of lib/wadParser: [threw, levels]
extractLevelNamesFromData(wad) ==
  IF wad = {} THEN [threw |-> TRUE, levels |-> EmptyMap]
  ELSE [threw |-> FALSE, levels |-> LumpNames(EmptyMap, CHOOSE x \in wad : TRUE, 1)]

\* extractLevelNames(filePath) of lib/wadParser: [threw, levels]
extractLevelNames(file) ==
  IF ~file.present THEN [threw |-> TRUE, levels |-> EmptyMap]
  ELSE extractLevelNamesFromData(file.wad)

ExtWad == << ".", "w", "a", "d" >>
ExtZip == << ".", "z", "i", "p" >>
ExtPk3 == << ".", "p", "k", "3" >>

\* entryName.split("/").pop()
BaseName(entryName) == LET parts == split(entryName, "/") IN parts[Len(parts)]

\* first loop over Object.entries(unzipped): the nested level containers
RECURSIVE ZipWadPass(_, _, _)
ZipWadPass(allLevels, entries, i) ==
  IF i > Len(entries) THEN allLevels
  ELSE LET Merged(r) == IF ~r.threw THEN MergeNew(allLevels, r.levels) ELSE allLevels
       IN  ZipWadPass(IF endsWith(toLowerCase(entries[i].name), ExtWad)
                        THEN Merged(extractLevelNamesFromData(entries[i].data.wad))
                        ELSE allLevels,
                      entries, i + 1)

\* second loop: the map-definition files directly in the archive
RECURSIVE ZipLumpPass(_, _, _)
ZipLumpPass(allLevels, entries, i) ==
  IF i > Len(entries) THEN allLevels
  ELSE LET Merged(baseName) ==
             IF IsMapinfoLump(baseName)
               THEN MergeNew(allLevels, parseMapinfoContent(baseName, entries[i].data.text))
               ELSE allLevels
       IN  ZipLumpPass(Merged(toUpperCase(BaseName(entries[i].name))), entries, i + 1)

\* Tier 3 of loadLevelNames after the ledger lookup: [threw, levels] for the
\* installed file named downloadInfo.filename
ParseInstalled(downloadFilename, file) ==
  LET Unzipped(unzipped) ==
        [threw |-> FALSE, levels |-> ZipLumpPass(ZipWadPass(EmptyMap, unzipped, 1), unzipped, 1)]
      Parsed(filename) ==
        IF endsWith(filename, ExtZip) \/ endsWith(filename, ExtPk3)
          THEN IF ~file.present THEN [threw |-> TRUE, levels |-> EmptyMap]
               ELSE IF file.zip = {} THEN [threw |-> FALSE, levels |-> EmptyMap]
               ELSE Unzipped(CHOOSE x \in file.zip : TRUE)
        ELSE IF endsWith(filename, ExtWad) THEN extractLevelNames(file)
        ELSE [threw |-> FALSE, levels |-> EmptyMap]
  IN  Parsed(toLowerCase(downloadFilename))

\* getDownloadInfo(slug): {} for null, else {[filename]}.  The ledger state is
\* "unreadable" (readTextFile or JSON.parse throws), "invalid" (safeParse
\* fails) or "ok".
getDownloadInfo(slug) ==
  IF ledger.state = "ok" /\ slug \in DOMAIN ledger.downloads THEN {ledger.downloads[slug]} ELSE {}

(***************************************************************************)
(* useLevelNames: loadFromStorage, saveToStorage, loadLevelNames           *)
(***************************************************************************)
\* loadFromStorage(slug): {} for null, else {map}
loadFromStorage(store, slug) == store[slug]

\* the stored maps after saveToStorage(slug, levels): the write succeeds, or
\* it throws and the catch block only logs; each is [store, failed]
saveToStorage(store, slug, levels) ==
  {[store |-> [store EXCEPT ![slug] = {levels}], failed |-> FALSE],
   [store |-> store, failed |-> TRUE]}

\* Map.prototype.delete / has / set on levelNamesCache.value
CacheDelete(cache, slug) == [x \in DOMAIN cache \ {slug} |-> cache[x]]

\* a stored map that is never used
StoredHit_never(stored) == FALSE

\* stored && stored.size > 0
StoredHit(stored) == stored # {} /\ (CHOOSE x \in stored : TRUE) # EmptyMap

\* a size test that every map passes
HasNames_always(allLevels) == TRUE

\* allLevels.size > 0
HasNames(allLevels) == allLevels # EmptyMap

\* what tier 3 touches: the ledger, and the installed file when the file
\* name has a known extension
Tier3Reads(downloadInfo) ==
  IF downloadInfo = {} THEN << "storage", "ledger" >>
  ELSE LET filename == toLowerCase((CHOOSE x \in downloadInfo : TRUE).filename)
       IN  IF endsWith(filename, ExtZip) \/ endsWith(filename, ExtPk3) \/ endsWith(filename, ExtWad)
             THEN << "storage", "ledger", "file" >>
             ELSE << "storage", "ledger" >>

\* The ways loadLevelNames(slug) can end from a cache and stored maps:
\* [cache, store, ret, reads, writeFailed], ret being {} for null and reads
\* the sequence of what was read
loadLevelNames(cache, store, slug) ==
  LET Null(reads) ==
        {[cache |-> cache, store |-> store, ret |-> {}, reads |-> reads, writeFailed |-> FALSE]}
      Tier3Parsed(reads, parsed) ==
        IF ~parsed.threw /\ HasNames(parsed.levels)
          THEN {[cache |-> MapSet(cache, slug, parsed.levels), store |-> w.store,
                 ret |-> {parsed.levels}, reads |-> reads, writeFailed |-> w.failed] :
                w \in saveToStorage(store, slug, parsed.levels)}
          ELSE Null(reads)
      Tier3(downloadInfo, reads) ==
        IF downloadInfo = {} THEN Null(reads)
        ELSE Tier3Parsed(reads, ParseInstalled((CHOOSE x \in downloadInfo : TRUE).filename,
                                               library[(CHOOSE x \in downloadInfo : TRUE).filename]))
      Tier2(stored) ==
        IF StoredHit(stored)
          THEN {[cache |-> MapSet(cache, slug, CHOOSE x \in stored : TRUE), store |-> store,
                 ret |-> stored, reads |-> << "storage" >>, writeFailed |-> FALSE]}
          ELSE Tier3(getDownloadInfo(slug), Tier3Reads(getDownloadInfo(slug)))
  IN  IF MapHas(cache, slug)
        THEN {[cache |-> cache, store |-> store, ret |-> {cache[slug]}, reads |-> << >>,
               writeFailed |-> FALSE]}
        ELSE Tier2(loadFromStorage(store, slug))

\* the slugs whose latest resolution was null after recomputation
NoteResolved(nulls, slug, r) ==
  IF r.ret = {} THEN nulls \cup {slug} ELSE nulls \ {slug}

LoadLevelNames(slug) ==
  /\ \E r \in loadLevelNames(levelNamesCache, levelNamesStore, slug) :
       /\ levelNamesCache' = r.cache
       /\ levelNamesStore' = r.store
       /\ nullResolved' = NoteResolved(nullResolved, slug, r)
       /\ last' = [op |-> "loadLevelNames", slug |-> slug, outcome |-> "returned", ret |-> r.ret,
                   reads |-> r.reads, writeFailed |-> r.writeFailed,
                   cachedBefore |-> IF MapHas(levelNamesCache, slug) THEN {levelNamesCache[slug]} ELSE {},
                   storedBefore |-> levelNamesStore[slug],
                   nullBefore |-> slug \in nullResolved]
  /\ UNCHANGED << statsVars, ledger, library, input, calls, appVars >>

\* clearCache(slug)
ClearCache(slug) ==
  /\ levelNamesCache' = CacheDelete(levelNamesCache, slug)
  /\ last' = [op |-> "clearCache"]
  /\ UNCHANGED << statsVars, ledger, library, levelNamesStore, nullResolved, input, calls, appVars >>

\* clearCache()
ClearCacheAll ==
  /\ levelNamesCache' = EmptyMap
  /\ last' = [op |-> "clearCache"]
  /\ UNCHANGED << statsVars, ledger, library, levelNamesStore, nullResolved, input, calls, appVars >>

(***************************************************************************)
(* rescanAllWads                                                           *)
(***************************************************************************)
\* a rescan that keeps the cache entry
RescanForget_keep(cache, slug) == cache

\* levelNamesCache.value.delete(slug) of the rescan loop
RescanForget(cache, slug) == CacheDelete(cache, slug)

\* for (const slug of Object.keys(parsed.data.downloads)) { ... } from the
\* position i of the key order on; st is [cache, store, count, nulls]
RECURSIVE RescanLoop(_, _, _)
RescanLoop(sts, slugs, i) ==
  IF i > Len(slugs) THEN sts
  ELSE RescanLoop(
         UNION {{[cache |-> r.cache, store |-> r.store,
                  count |-> IF r.ret # {} /\ HasNames(CHOOSE x \in r.ret : TRUE)
                              THEN st.count + 1 ELSE st.count,
                  nulls |-> NoteResolved(st.nulls, slugs[i], r)] :
                 r \in loadLevelNames(RescanForget(st.cache, slugs[i]), st.store, slugs[i])} :
                st \in sts},
         slugs, i + 1)

RescanResult(ret) ==
  [op |-> "rescanAllWads", outcome |-> "returned", ret |-> ret, cacheBefore |-> levelNamesCache]

rescanAllWads ==
  \/ /\ ledger.state # "ok"
     /\ last' = RescanResult(0)
     /\ UNCHANGED << statsVars, namesVars, input, calls, appVars >>
  \/ /\ ledger.state = "ok"
     /\ \E slugs \in Orders(DOMAIN ledger.downloads) :
        \E st \in RescanLoop({[cache |-> levelNamesCache, store |-> levelNamesStore, count |-> 0,
                               nulls |-> nullResolved]}, slugs, 1) :
          /\ levelNamesCache' = st.cache
          /\ levelNamesStore' = st.store
          /\ nullResolved' = st.nulls
          /\ last' = RescanResult(st.count)
     /\ UNCHANGED << statsVars, ledger, library, input, calls, appVars >>

(***************************************************************************)
(* Downloads and installed files change                                    *)
(***************************************************************************)
Q == "\""
TxtHangar == << "H", "a", "n", "g", "a", "r" >>
TxtUnderhalls == << "U", "n", "d", "e", "r", "h", "a", "l", "l", "s" >>
TxtTHINGS == << "T", "H", "I", "N", "G", "S" >>

\* map <id> "<name>"
MapinfoText(id, name) == TxtMapLower \o << " " >> \o id \o << " ", Q >> \o name \o << Q >>
\* MAP <id>, then levelname = "<name>" on the next line
UmapinfoText(id, name) ==
  TxtMAP \o << " " >> \o id \o << NL >> \o TxtLevelname \o << " ", "=", " ", Q >> \o name \o << Q >>

FileDoomWad == << "d", "o", "o", "m" >> \o ExtWad
FileModPk3 == << "M", "o", "d", ".", "P", "K", "3" >>
FileNotes == << "n", "o", "t", "e", "s", ".", "t", "x", "t" >>
EntryNestedWad == << "m", "a", "p", "s", "/", "a", ".", "w", "a", "d" >>
EntryMapinfo == << "m", "a", "p", "i", "n", "f", "o" >>

WadEntryway == WadFile(<< Lump(TxtTHINGS, << >>), Lump(MAPINFO, MapinfoText(TxtMAP01, TxtEntryway)) >>)
WadHangar == WadFile(<< Lump(UMAPINFO, UmapinfoText(TxtMAP01, TxtHangar)) >>)
WadPlain == WadFile(<< Lump(TxtTHINGS, << >>) >>)
\* the direct map-definition entry comes first in the archive, the nested
\* level container second
ZipBoth ==
  ZipFile(<< ZipEntry(EntryMapinfo, {},
                      MapinfoText(TxtMAP01, TxtEntryway) \o << NL >> \o MapinfoText(TxtMAP02, TxtUnderhalls)),
             ZipEntry(EntryNestedWad, {<< Lump(UMAPINFO, UmapinfoText(TxtMAP01, TxtHangar)) >>}, << >>) >>)

\* the files a download can leave in the library, by file name
InstallCatalogue ==
  { [filename |-> FileDoomWad, file |-> WadEntryway],
    [filename |-> FileDoomWad, file |-> WadHangar],
    [filename |-> FileDoomWad, file |-> WadPlain],
    [filename |-> FileDoomWad, file |-> JunkFile],
    [filename |-> FileModPk3, file |-> ZipBoth],
    [filename |-> FileModPk3, file |-> JunkFile] }

Filenames == {FileDoomWad, FileModPk3, FileNotes}

\* the entries the downloader can record in the ledger
DownloadCatalogue ==
  { [slug |-> << "s", "1" >>, filename |-> FileDoomWad],
    [slug |-> << "s", "2" >>, filename |-> FileModPk3],
    [slug |-> << "s", "2" >>, filename |-> FileNotes] }

\* a download records a slug in the ledger (creating the ledger if needed)
AddDownload(e) ==
  /\ ledger.state = "ok" => (e.slug \in DOMAIN ledger.downloads => ledger.downloads[e.slug].filename # e.filename)
  /\ ledger' = [state |-> "ok",
                downloads |-> MapSet(IF ledger.state = "ok" THEN ledger.downloads ELSE EmptyMap,
                                     e.slug, [filename |-> e.filename])]
  /\ last' = [op |-> "env"]
  /\ UNCHANGED << statsVars, library, levelNamesStore, levelNamesCache, nullResolved, input, calls, appVars >>

\* a download is deleted from the ledger
RemoveDownload(slug) ==
  /\ ledger.state = "ok" /\ slug \in DOMAIN ledger.downloads
  /\ ledger' = [ledger EXCEPT !.downloads = [x \in DOMAIN ledger.downloads \ {slug} |-> ledger.downloads[x]]]
  /\ last' = [op |-> "env"]
  /\ UNCHANGED << statsVars, library, levelNamesStore, levelNamesCache, nullResolved, input, calls, appVars >>

\* the ledger file becomes unreadable or fails the schema
BreakLedger(state) ==
  /\ ledger.state # state
  /\ ledger' = [state |-> state, downloads |-> EmptyMap]
  /\ last' = [op |-> "env"]
  /\ UNCHANGED << statsVars, library, levelNamesStore, levelNamesCache, nullResolved, input, calls, appVars >>

\* a file is put into the library
Install(e) ==
  /\ library[e.filename] # e.file
  /\ library' = [library EXCEPT ![e.filename] = e.file]
  /\ last' = [op |-> "env"]
  /\ UNCHANGED << statsVars, ledger, levelNamesStore, levelNamesCache, nullResolved, input, calls, appVars >>

\* a file is removed from the library
Uninstall(filename) ==
  /\ library[filename].present
  /\ library' = [library EXCEPT ![filename] = NoFile]
  /\ last' = [op |-> "env"]
  /\ UNCHANGED << statsVars, ledger, levelNamesStore, levelNamesCache, nullResolved, input, calls, appVars >>

\* no ledger, no installed file, nothing stored, nothing cached
NamesIdle ==
  /\ ledger = [state |-> "unreadable", downloads |-> EmptyMap]
  /\ library = [f \in Filenames |-> NoFile]
  /\ levelNamesStore = [s \in Slugs |-> {}]
  /\ levelNamesCache = EmptyMap
  /\ nullResolved = {}

\* a merge that sets every name that differs from its id
RECURSIVE AccumulateNames_overwrite(_, _)
AccumulateNames_overwrite(levelNames, levels) ==
  IF levels = << >> THEN levelNames
  ELSE LET level == levels[1]
       IN  AccumulateNames_overwrite(IF level.name # level.id
                                       THEN MapSet(levelNames, level.id, level.name)
                                       ELSE levelNames,
                                     Tail(levels))

(***************************************************************************)
(* captureStats                                                            *)
(***************************************************************************)
\* for (const level of session.levels) if (level.name !== level.id &&
\* !levelNames.has(level.id)) levelNames.set(level.id, level.name)
RECURSIVE AccumulateNames(_, _)
AccumulateNames(levelNames, levels) ==
  IF levels = << >> THEN levelNames
  ELSE LET level == levels[1]
       IN  AccumulateNames(IF level.name # level.id /\ ~MapHas(levelNames, level.id)
                             THEN MapSet(levelNames, level.id, level.name)
                             ELSE levelNames,
                           Tail(levels))

\* for (const level of session.levels) if (level.name === level.id &&
\* levelNames.has(level.id)) level.name = levelNames.get(level.id)
ApplyKnownNames(session, levelNames) ==
  [session EXCEPT !.levels =
     [i \in 1..Len(session.levels) |->
        LET level == session.levels[i]
        IN  IF level.name = level.id /\ MapHas(levelNames, level.id)
              THEN [level EXCEPT !.name = levelNames[level.id]]
              ELSE level]]

\* One iteration of "for (const save of saveFiles)".  acc is the state of the
\* run: [levelNames, updated, dir, count, wrote, failed].  The result is the
\* set of states the iteration can end in: writeTextFile either succeeds or
\* throws, and the catch block only logs.
CaptureOne(acc, slug, saveName, file) ==
  LET Written(acc1, name, fullSession) ==
        [acc1 EXCEPT !.dir = WriteFile(acc.dir, name, SessionFile(fullSession)),
                     !.count = acc.count + 1,
                     !.wrote = acc.wrote \cup {name}]
      Store(acc1, session, hash) ==
        IF sessionHashExists(acc.dir, hash) THEN {acc1}
        ELSE IF ~acc.dir.exists THEN {[acc1 EXCEPT !.failed = TRUE]}
        ELSE {Written(acc1, hash \o ExtJson,
                      [schemaVersion |-> session.schemaVersion,
                       wadSlug |-> session.wadSlug,
                       startLevel |-> session.startLevel,
                       skill |-> session.skill,
                       sourceFile |-> session.sourceFile,
                       levels |-> session.levels,
                       capturedAt |-> toISOString(file.mtime)]),
              [acc1 EXCEPT !.failed = TRUE]}
      Hashed(levelNames, session) ==
        Store([acc EXCEPT !.levelNames = levelNames,
                          !.updated = acc.updated \/ (levelNames # acc.levelNames)],
              session, generateSessionHash(session))
      Named(session0, levelNames) == Hashed(levelNames, ApplyKnownNames(session0, levelNames))
      Session(session0) == Named(session0, AccumulateNames(acc.levelNames, session0.levels))
      Parsed(parsed) == IF parsed = {} THEN {acc} ELSE Session(CHOOSE x \in parsed : TRUE)
  IN  Parsed(parseSaveForStats(getSavesDir(slug) \o << saveName >>, saveName, file))

\* a loop that ends at the first save file that does not parse
RECURSIVE CaptureLoop_stopAtBad(_, _, _, _, _)
CaptureLoop_stopAtBad(accs, slug, files, saveFiles, i) ==
  IF i > Len(saveFiles) THEN accs
  ELSE IF parseSaveForStats(getSavesDir(slug) \o << saveFiles[i] >>, saveFiles[i],
                            files[saveFiles[i]]) = {} THEN accs
  ELSE CaptureLoop_stopAtBad(UNION {CaptureOne(acc, slug, saveFiles[i], files[saveFiles[i]]) :
                                      acc \in accs},
                             slug, files, saveFiles, i + 1)

\* the loop over saveFiles[i..], from each of the states accs
RECURSIVE CaptureLoop(_, _, _, _, _)
CaptureLoop(accs, slug, files, saveFiles, i) ==
  IF i > Len(saveFiles) THEN accs
  ELSE CaptureLoop(UNION {CaptureOne(acc, slug, saveFiles[i], files[saveFiles[i]]) : acc \in accs},
                   slug, files, saveFiles, i + 1)

\* if (levelNamesUpdated) saveLevelNames(...), whose failure is logged only
SaveNamesIfUpdated(acc) ==
  IF ~acc.updated THEN {acc}
  ELSE IF ~acc.dir.exists THEN {[acc EXCEPT !.failed = TRUE]}
  ELSE {[acc EXCEPT !.dir = WriteFile(acc.dir, LevelNamesFile, NamesFile(acc.levelNames))],
        [acc EXCEPT !.failed = TRUE]}

\* the entries of the save directory that the listing keeps
ListedSaves(files) == {n \in DOMAIN files : endsWith(n, ExtZds) /\ files[n].statOk}

\* a run that counts every save file it went through
CaptureRuns_countAll(slug, dir0, files, saveFiles) ==
  LET acc0 == [levelNames |-> statsLoadLevelNames(dir0), updated |-> FALSE, dir |-> dir0,
               count |-> 0, wrote |-> {}, failed |-> FALSE]
  IN  UNION {{[run EXCEPT !.count = Len(saveFiles)] : run \in SaveNamesIfUpdated(acc)} :
             acc \in CaptureLoop({acc0}, slug, files, saveFiles, 1)}

\* The states one run can end in, from the stats directory dir0.
CaptureRuns(slug, dir0, files, saveFiles) ==
  LET acc0 == [levelNames |-> statsLoadLevelNames(dir0), updated |-> FALSE, dir |-> dir0,
               count |-> 0, wrote |-> {}, failed |-> FALSE]
  IN  UNION {SaveNamesIfUpdated(acc) : acc \in CaptureLoop({acc0}, slug, files, saveFiles, 1)}

CaptureResult(slug, ret, wrote, failed) ==
  [op |-> "captureStats", slug |-> slug, outcome |-> "returned", ret |-> ret,
   wrote |-> wrote, writeFailed |-> failed, cleanBefore |-> capturedClean[slug]]

\* captureStats(slug) returns 0 because the save directory does not exist
CaptureNoSaves(slug) ==
  /\ ~savesDir[slug].exists
  /\ last' = CaptureResult(slug, 0, {}, FALSE)
  /\ capturedClean' = [capturedClean EXCEPT ![slug] = TRUE]
  /\ UNCHANGED << savesDir, statsDir, namesVars, input, calls, appVars >>

\* mkdir(statsDir) throws an error that is not "not found": return 0
CaptureMkdirFails(slug) ==
  /\ savesDir[slug].exists
  /\ ~statsDir[slug].exists
  /\ last' = CaptureResult(slug, 0, {}, TRUE)
  /\ capturedClean' = [capturedClean EXCEPT ![slug] = FALSE]
  /\ UNCHANGED << savesDir, statsDir, namesVars, input, calls, appVars >>

\* The stats directory after "await mkdir(statsDir, { recursive: true })" when
\* captureStats goes on: made, or still missing after a "not found" error
AfterMkdir(dir) ==
  {[dir EXCEPT !.exists = TRUE]} \cup (IF dir.exists THEN {} ELSE {dir})

\* readDir(savesDir) throws after the stats directory has been made: return 0
CaptureUnreadable(slug) ==
  /\ savesDir[slug].exists /\ ~savesDir[slug].readable
  /\ \E dir0 \in AfterMkdir(statsDir[slug]) :
       /\ statsDir' = [statsDir EXCEPT ![slug] = dir0]
       /\ last' = CaptureResult(slug, 0, {}, ~dir0.exists)
       /\ capturedClean' = [capturedClean EXCEPT ![slug] = dir0.exists]
  /\ UNCHANGED << savesDir, namesVars, input, calls, appVars >>

\* the run that reaches the loop over the save files
CaptureFiles(slug) ==
  /\ savesDir[slug].exists /\ savesDir[slug].readable
  /\ \E dir0 \in AfterMkdir(statsDir[slug]) :
     \E saveFiles \in Orders(ListedSaves(savesDir[slug].files)) :
     \E run \in CaptureRuns(slug, dir0, savesDir[slug].files, saveFiles) :
       /\ statsDir' = [statsDir EXCEPT ![slug] = run.dir]
       /\ last' = CaptureResult(slug, run.count, run.wrote, run.failed \/ ~dir0.exists)
       /\ capturedClean' = [capturedClean EXCEPT ![slug] = ~(run.failed \/ ~dir0.exists)]
  /\ UNCHANGED << savesDir, namesVars, input, calls, appVars >>

captureStats(slug) ==
  \/ CaptureNoSaves(slug)
  \/ CaptureMkdirFails(slug)
  \/ CaptureUnreadable(slug)
  \/ CaptureFiles(slug)

(***************************************************************************)
(* loadAllSessions                                                         *)
(***************************************************************************)
\* a sort from the greatest name to the least
RECURSIVE SortNames_descending(_)
SortNames_descending(S) ==
  IF S = {} THEN << >>
  ELSE LET first == CHOOSE n \in S : \A m \in S \ {n} : StrLess(m, n)
       IN  << first >> \o SortNames_descending(S \ {first})

\* Array.prototype.sort() of a set of distinct file names
RECURSIVE SortNames(_)
SortNames(S) ==
  IF S = {} THEN << >>
  ELSE LET first == CHOOSE n \in S : \A m \in S \ {n} : StrLess(n, m)
       IN  << first >> \o SortNames(S \ {first})

\* the sessions read from the files names[i..], appended to sessions
RECURSIVE ReadSessions(_, _, _, _, _)
ReadSessions(sessions, dir, levelNames, names, i) ==
  IF i > Len(names) THEN sessions
  ELSE LET f == dir.files[names[i]]
       IN  ReadSessions(IF f.kind = "session" /\ PlaySessionSchema(f.data)
                          THEN Append(sessions, ApplyKnownNames(f.data, levelNames))
                          ELSE sessions,
                        dir, levelNames, names, i + 1)

\* the value loadAllSessions(slug) returns for the stats directory dir
loadAllSessions(dir) ==
  IF ~dir.exists THEN << >>
  ELSE LET levelNames == statsLoadLevelNames(dir)
           files == SortNames({n \in DOMAIN dir.files : endsWith(n, ExtJson) /\ n # LevelNamesFile})
       IN  ReadSessions(<< >>, dir, levelNames, files, 1)

(***************************************************************************)
(* getAggregatedStats                                                      *)
(***************************************************************************)
\* `${level.id}_${session.skill}`
LevelSkillKey(level, skill) == level.id \o << "_" >> \o skill

\* a comparison that ignores the time of runs with equal kills
BetterRun_killsOnly(level, existing) == level.kills > existing.kills

\* level.kills > existing.kills || (level.kills === existing.kills &&
\* level.timeTics < existing.timeTics)
BetterRun(level, existing) ==
  \/ level.kills > existing.kills
  \/ (level.kills = existing.kills /\ level.timeTics < existing.timeTics)

\* { ...level, skill: session.skill }
WithSkill(level, skill) ==
  [id |-> level.id, name |-> level.name, kills |-> level.kills, totalKills |-> level.totalKills,
   items |-> level.items, totalItems |-> level.totalItems, secrets |-> level.secrets,
   totalSecrets |-> level.totalSecrets, timeTics |-> level.timeTics, skill |-> skill]

\* for (const level of session.levels) { ... }
RECURSIVE AggregateLevels(_, _, _)
AggregateLevels(best, levels, skill) ==
  IF levels = << >> THEN best
  ELSE LET level == levels[1]
           key == LevelSkillKey(level, skill)
       IN  AggregateLevels(IF ~MapHas(best, key) \/ BetterRun(level, best[key])
                             THEN MapSet(best, key, WithSkill(level, skill))
                             ELSE best,
                           Tail(levels), skill)

\* for (const session of sessions) { ... }
RECURSIVE AggregateSessions(_, _)
AggregateSessions(best, sessions) ==
  IF sessions = << >> THEN best
  ELSE AggregateSessions(AggregateLevels(best, sessions[1].levels, sessions[1].skill), Tail(sessions))

getAggregatedStats(slug) ==
  /\ last' = [op |-> "getAggregatedStats", slug |-> slug, outcome |-> "returned",
              ret |-> AggregateSessions(EmptyMap, loadAllSessions(statsDir[slug]))]
  /\ UNCHANGED << statsVars, namesVars, input, calls, appVars >>

(***************************************************************************)
(* loadAllSessions and getUniqueLevelsPlayed as operations                 *)
(***************************************************************************)
LoadAllSessions(slug) ==
  /\ last' = [op |-> "loadAllSessions", slug |-> slug, outcome |-> "returned",
              ret |-> loadAllSessions(statsDir[slug])]
  /\ UNCHANGED << statsVars, namesVars, input, calls, appVars >>

\* uniqueLevels.size after every level id of every session was added
UniqueLevels(sessions) ==
  Cardinality(UNION {{sessions[i].levels[j].id : j \in 1..Len(sessions[i].levels)} :
                       i \in 1..Len(sessions)})

getUniqueLevelsPlayed(slug) ==
  /\ last' = [op |-> "getUniqueLevelsPlayed", slug |-> slug, outcome |-> "returned",
              ret |-> UniqueLevels(loadAllSessions(statsDir[slug]))]
  /\ UNCHANGED << statsVars, namesVars, input, calls, appVars >>

(***************************************************************************)
(* The engine and the user change the save directory                       *)
(***************************************************************************)
\* the engine writes (or overwrites) a save file
PutSave(slug, e) ==
  /\ LET files == savesDir[slug].files
         new == [n \in DOMAIN files \cup {e.name} |-> IF n = e.name THEN e.file ELSE files[n]]
     IN  /\ (e.name \in DOMAIN files => files[e.name] # e.file)
         /\ savesDir' = [savesDir EXCEPT ![slug] = [exists |-> TRUE, readable |-> savesDir[slug].readable,
                                                     files |-> new]]
  /\ capturedClean' = [capturedClean EXCEPT ![slug] = FALSE]
  /\ last' = [op |-> "env"]
  /\ UNCHANGED << statsDir, namesVars, input, calls, appVars >>

\* the user deletes a save file
DeleteSave(slug, name) ==
  /\ name \in DOMAIN savesDir[slug].files
  /\ savesDir' = [savesDir EXCEPT ![slug].files = [n \in DOMAIN savesDir[slug].files \ {name} |->
                                                     savesDir[slug].files[n]]]
  /\ capturedClean' = [capturedClean EXCEPT ![slug] = FALSE]
  /\ last' = [op |-> "env"]
  /\ UNCHANGED << statsDir, namesVars, input, calls, appVars >>

\* the permissions of the save directory change
ChmodSaves(slug) ==
  /\ savesDir[slug].exists
  /\ savesDir' = [savesDir EXCEPT ![slug].readable = ~savesDir[slug].readable]
  /\ capturedClean' = [capturedClean EXCEPT ![slug] = FALSE]
  /\ last' = [op |-> "env"]
  /\ UNCHANGED << statsDir, namesVars, input, calls, appVars >>

\* no save directory and no stats directory yet
\* no invocation is in flight
CallsIdle == calls = << >>

\* nothing downloaded, nothing downloading, the engine not running
AppIdle ==
  /\ downloads = << >>
  /\ downloading = {}
  /\ isRunning = FALSE

StatsIdle ==
  /\ savesDir = [s \in Slugs |-> [exists |-> FALSE, readable |-> TRUE, files |-> << >>]]
  /\ statsDir = [s \in Slugs |-> [exists |-> FALSE, files |-> << >>]]
  /\ capturedClean = [s \in Slugs |-> FALSE]

InitStats ==
  /\ StatsIdle
  /\ NamesIdle
  /\ CallsIdle
  /\ AppIdle
  /\ input = << >>
  /\ last = [op |-> "init"]

NextStats ==
  \/ \E slug \in StatsSlugs : captureStats(slug)
  \/ \E slug \in StatsSlugs : getAggregatedStats(slug)
  \/ \E slug \in StatsSlugs : LoadAllSessions(slug)
  \/ \E slug \in StatsSlugs : getUniqueLevelsPlayed(slug)
  \/ \E slug \in StatsSlugs, e \in SaveCatalogue : PutSave(slug, e)
  \/ \E slug \in StatsSlugs, name \in {e.name : e \in SaveCatalogue} : DeleteSave(slug, name)
  \/ \E slug \in StatsSlugs : ChmodSaves(slug)

SpecStats == InitStats /\ [][NextStats]_vars

(***************************************************************************)
(* The level-name resolver with its environment                            *)
(***************************************************************************)
InitNames ==
  /\ StatsIdle
  /\ NamesIdle
  /\ CallsIdle
  /\ AppIdle
  /\ input = << >>
  /\ last = [op |-> "init"]

NextNames ==
  \/ \E slug \in Slugs : LoadLevelNames(slug)
  \/ \E slug \in Slugs : ClearCache(slug)
  \/ ClearCacheAll
  \/ rescanAllWads
  \/ \E e \in DownloadCatalogue : AddDownload(e)
  \/ \E slug \in Slugs : RemoveDownload(slug)
  \/ \E state \in {"unreadable", "invalid"} : BreakLedger(state)
  \/ \E e \in InstallCatalogue : Install(e)
  \/ \E filename \in Filenames : Uninstall(filename)

SpecNames == InitNames /\ [][NextNames]_vars

(***************************************************************************)
(* The session fingerprint as a function of two candidate sessions         *)
(***************************************************************************)
\* the most kills of a candidate session
MaxHashKills == 2

HashLevel(id, name, kills) ==
  [id |-> id, name |-> name, kills |-> kills, totalKills |-> MaxHashKills + 1, items |-> 0,
   totalItems |-> 1, secrets |-> 0, totalSecrets |-> 1, timeTics |-> 35]

\* candidate sessions as parseSaveForStats builds them, and as stored ones
\* read back with their capturedAt
HashSessions ==
  {[schemaVersion |-> 1, wadSlug |-> slug, startLevel |-> TxtMAP01, skill |-> skill,
    sourceFile |-> src.name, capturedAt |-> toISOString(src.mtime),
    levels |-> << HashLevel(TxtMAP01, name, kills) >>] :
   slug \in Slugs, skill \in {HMP, UV}, kills \in 1..MaxHashKills,
   name \in {TxtMAP01, TxtEntryway, TxtHangar},
   src \in {[name |-> NameAuto, mtime |-> 10], [name |-> NameSave, mtime |-> 20]}}

HashNames == {EmptyMap, MapSet(EmptyMap, TxtMAP01, TxtUnderhalls)}

\* captureStats lines 536-544: backfill the known names, then fingerprint
HashBoth ==
  /\ last.op = "init"
  /\ last' = [op |-> "generateSessionHash",
              a |-> generateSessionHash(ApplyKnownNames(input.a, input.levelNames)),
              b |-> generateSessionHash(ApplyKnownNames(input.b, input.levelNames)),
              raw |-> generateSessionHash(input.a)]
  /\ UNCHANGED << statsVars, namesVars, input, calls, appVars >>

InitHash ==
  /\ StatsIdle
  /\ NamesIdle
  /\ CallsIdle
  /\ AppIdle
  /\ input \in [a : HashSessions, b : HashSessions, levelNames : HashNames]
  /\ last = [op |-> "init"]

NextHash == HashBoth

SpecHash == InitHash /\ [][NextHash]_vars

(***************************************************************************)
(* parseMapinfoContent as a function of the lump                           *)
(***************************************************************************)
\* the most lines of a lump
MaxLines == 3

TxtLevelnameEq == TxtLevelname \o << " ", "=", " " >>

\* MAP <id> { levelname = "<name>" }
OneLineBlock(id, name) ==
  TxtMAP \o << " " >> \o id \o << " ", "{", " " >> \o TxtLevelnameEq
  \o << Q >> \o name \o << Q, " ", "}" >>

\* the lines a lump is made of
LumpLines ==
  { MapinfoText(TxtMAP01, TxtEntryway), MapinfoText(TxtMAP01, TxtHangar),
    << "[" >> \o TxtMAP01 \o << "]" >>, << "[" >> \o TxtMap01Lower \o << "]" >>,
    TxtLevelnameEq \o TxtEntryway, TxtLevelnameEq \o TxtHangar,
    TxtMAP \o << " " >> \o TxtMAP01, TxtMAP \o << " " >> \o TxtMAP02,
    TxtLevelnameEq \o << Q >> \o TxtUnderhalls \o << Q >>,
    << "{" >>, OneLineBlock(TxtMAP02, TxtUnderhalls) }

RECURSIVE JoinLines(_)
JoinLines(lines) ==
  IF lines = << >> THEN << >>
  ELSE IF Len(lines) = 1 THEN lines[1]
  ELSE lines[1] \o << NL >> \o JoinLines(Tail(lines))

\* one more line is written into the lump
AppendLine(line) ==
  /\ Len(input.lines) < MaxLines
  /\ input' = [input EXCEPT !.lines = Append(@, line)]
  /\ last' = [op |-> "edit"]
  /\ UNCHANGED << statsVars, namesVars, calls, appVars >>

ParseContent ==
  /\ last' = [op |-> "parseMapinfoContent", outcome |-> "returned",
              ret |-> parseMapinfoContent(input.lumpName, JoinLines(input.lines))]
  /\ UNCHANGED << statsVars, namesVars, input, calls, appVars >>

\* the lump names the parser is called with: the four of mapinfoLumps and
\* the name of a lump of another kind
ParsedLumps == {mapinfoLumps[i] : i \in 1..Len(mapinfoLumps)} \cup {TxtTHINGS}

InitParse ==
  /\ StatsIdle
  /\ NamesIdle
  /\ CallsIdle
  /\ AppIdle
  /\ input \in [lumpName : ParsedLumps, lines : {<< >>}]
  /\ last = [op |-> "init"]

NextParse ==
  \/ \E line \in LumpLines : AppendLine(line)
  \/ ParseContent

SpecParse == InitParse /\ [][NextParse]_vars

(***************************************************************************)
(* Overlapping invocations.  Each invocation runs to its next await as one *)
(* step: the file-system effect of the await it resumes from, together     *)
(* with the synchronous code up to the following await.  Nothing in the    *)
(* composables holds a lock or a queue, so the steps of two invocations    *)
(* interleave freely.                                                      *)
(***************************************************************************)
Procs == {1, 2}

\* the directory a path names: its last segment, the slug
DirAt(path) == path[Len(path)]

\* an invocation of op(slug) before its first step
Call(op, slug) ==
  [op |-> op, slug |-> slug, pc |-> "start", levelNames |-> EmptyMap, updated |-> FALSE,
   files |-> << >>, i |-> 1, count |-> 0, sessions |-> << >>, pending |-> {},
   failed |-> FALSE, ret |-> {}]

Return(c, value) == [c EXCEPT !.pc = "done", !.ret = {value}, !.pending = {}]

Resume(p, c) == calls' = [calls EXCEPT ![p] = c]

At(p, op, pc) == calls[p].op = op /\ calls[p].pc = pc

\* ---- captureStats ----
\* if (!(await exists(savesDir))) return 0
CapExists(p) ==
  /\ At(p, "captureStats", "start")
  /\ Resume(p, IF savesDir[DirAt(getSavesDir(calls[p].slug))].exists
                 THEN [calls[p] EXCEPT !.pc = "mkdir"]
                 ELSE Return(calls[p], 0))
  /\ UNCHANGED << statsVars, namesVars, input, last, appVars >>

\* await mkdir(statsDir, { recursive: true }): an error that is not "not
\* found" returns 0, otherwise the run goes on
CapMkdir(p) ==
  /\ At(p, "captureStats", "mkdir")
  /\ \/ /\ ~statsDir[DirAt(getStatsDir(calls[p].slug))].exists
        /\ Resume(p, Return([calls[p] EXCEPT !.failed = TRUE], 0))
        /\ UNCHANGED statsDir
     \/ \E dir0 \in AfterMkdir(statsDir[DirAt(getStatsDir(calls[p].slug))]) :
          /\ statsDir' = [statsDir EXCEPT ![DirAt(getStatsDir(calls[p].slug))] = dir0]
          /\ Resume(p, [calls[p] EXCEPT !.pc = "loadNames", !.failed = ~dir0.exists])
  /\ UNCHANGED << savesDir, capturedClean, namesVars, input, last, appVars >>

\* const levelNames = await loadLevelNames(statsDir)
CapLoadNames(p) ==
  /\ At(p, "captureStats", "loadNames")
  /\ Resume(p, [calls[p] EXCEPT
                  !.pc = "readDir",
                  !.levelNames = statsLoadLevelNames(statsDir[DirAt(getStatsDir(calls[p].slug))])])
  /\ UNCHANGED << statsVars, namesVars, input, last, appVars >>

\* after an iteration of the loop: the next save file, the save of the names
\* when some were discovered, or the return
NextSave(c) ==
  IF c.i < Len(c.files) THEN [c EXCEPT !.pc = "check", !.i = c.i + 1, !.pending = {}]
  ELSE IF c.updated THEN [c EXCEPT !.pc = "saveNames", !.i = c.i + 1, !.pending = {}]
  ELSE Return(c, c.count)

\* readDir(savesDir) and the stat of every .zds entry
CapReadDir(p) ==
  /\ At(p, "captureStats", "readDir")
  /\ LET saves == savesDir[DirAt(getSavesDir(calls[p].slug))]
     IN  IF ~saves.readable THEN Resume(p, Return(calls[p], 0))
         ELSE \E saveFiles \in Orders(ListedSaves(saves.files)) :
                Resume(p, NextSave([calls[p] EXCEPT !.files = saveFiles, !.i = 0]))
  /\ UNCHANGED << statsVars, namesVars, input, last, appVars >>

\* One iteration up to "await sessionHashExists(statsDir, hash)" and its
\* answer: the save is parsed, its names are accumulated and applied, and
\* the session that is not yet stored is kept for the write
CapCheck(p) ==
  /\ At(p, "captureStats", "check")
  /\ LET c == calls[p]
         dir == statsDir[DirAt(getStatsDir(c.slug))]
         saveName == c.files[c.i]
         file == savesDir[DirAt(getSavesDir(c.slug))].files[saveName]
         Pending(c1, session, hash) ==
           IF sessionHashExists(dir, hash) THEN NextSave(c1)
           ELSE [c1 EXCEPT !.pc = "write",
                           !.pending = {[name |-> hash \o ExtJson,
                                         content |-> SessionFile(
                                           [schemaVersion |-> session.schemaVersion,
                                            wadSlug |-> session.wadSlug,
                                            startLevel |-> session.startLevel,
                                            skill |-> session.skill,
                                            sourceFile |-> session.sourceFile,
                                            levels |-> session.levels,
                                            capturedAt |-> toISOString(file.mtime)])]}]
         Hashed(levelNames, session) ==
           Pending([c EXCEPT !.levelNames = levelNames,
                             !.updated = c.updated \/ (levelNames # c.levelNames)],
                   session, generateSessionHash(session))
         Named(session0, levelNames) == Hashed(levelNames, ApplyKnownNames(session0, levelNames))
         Session(session0) == Named(session0, AccumulateNames(c.levelNames, session0.levels))
         Parsed(parsed) == IF parsed = {} THEN NextSave(c) ELSE Session(CHOOSE x \in parsed : TRUE)
     IN  Resume(p, Parsed(parseSaveForStats(getSavesDir(c.slug) \o << saveName >>, saveName, file)))
  /\ UNCHANGED << statsVars, namesVars, input, last, appVars >>

\* await writeTextFile(filepath, ...); capturedCount++ -- or the catch block
CapWrite(p) ==
  /\ At(p, "captureStats", "write")
  /\ LET c == calls[p]
         w == CHOOSE x \in c.pending : TRUE
     IN  \/ /\ statsDir[DirAt(getStatsDir(c.slug))].exists
            /\ statsDir' = [statsDir EXCEPT ![DirAt(getStatsDir(c.slug))] =
                              WriteFile(@, w.name, w.content)]
            /\ Resume(p, NextSave([c EXCEPT !.count = c.count + 1]))
         \/ /\ Resume(p, NextSave([c EXCEPT !.failed = TRUE]))
            /\ UNCHANGED statsDir
  /\ UNCHANGED << savesDir, capturedClean, namesVars, input, last, appVars >>

\* await saveLevelNames(statsDir, levelNames), whose failure is logged only
CapSaveNames(p) ==
  /\ At(p, "captureStats", "saveNames")
  /\ LET c == calls[p]
     IN  \/ /\ statsDir[DirAt(getStatsDir(c.slug))].exists
            /\ statsDir' = [statsDir EXCEPT ![DirAt(getStatsDir(c.slug))] =
                              WriteFile(@, LevelNamesFile, NamesFile(c.levelNames))]
            /\ Resume(p, Return(c, c.count))
         \/ /\ Resume(p, Return([c EXCEPT !.failed = TRUE], c.count))
            /\ UNCHANGED statsDir
  /\ UNCHANGED << savesDir, capturedClean, namesVars, input, last, appVars >>

\* ---- loadAllSessions ----
\* if (!(await exists(statsDir))) return []
AllExists(p) ==
  /\ At(p, "loadAllSessions", "start")
  /\ Resume(p, IF statsDir[DirAt(getStatsDir(calls[p].slug))].exists
                 THEN [calls[p] EXCEPT !.pc = "loadNames"]
                 ELSE Return(calls[p], << >>))
  /\ UNCHANGED << statsVars, namesVars, input, last, appVars >>

AllLoadNames(p) ==
  /\ At(p, "loadAllSessions", "loadNames")
  /\ Resume(p, [calls[p] EXCEPT
                  !.pc = "readDir",
                  !.levelNames = statsLoadLevelNames(statsDir[DirAt(getStatsDir(calls[p].slug))])])
  /\ UNCHANGED << statsVars, namesVars, input, last, appVars >>

NextSession(c) ==
  IF c.i < Len(c.files) THEN [c EXCEPT !.pc = "read", !.i = c.i + 1]
  ELSE Return(c, c.sessions)

\* readDir(statsDir), the filter and the sort
AllReadDir(p) ==
  /\ At(p, "loadAllSessions", "readDir")
  /\ LET dir == statsDir[DirAt(getStatsDir(calls[p].slug))]
     IN  Resume(p, NextSession([calls[p] EXCEPT
                     !.files = SortNames({n \in DOMAIN dir.files :
                                            endsWith(n, ExtJson) /\ n # LevelNamesFile}),
                     !.i = 0]))
  /\ UNCHANGED << statsVars, namesVars, input, last, appVars >>

\* readTextFile of one listed file, the schema and the backfill of names
AllRead(p) ==
  /\ At(p, "loadAllSessions", "read")
  /\ LET c == calls[p]
         dir == statsDir[DirAt(getStatsDir(c.slug))]
     IN  Resume(p, NextSession([c EXCEPT !.sessions =
                     ReadSessions(c.sessions, dir, c.levelNames, << c.files[c.i] >>, 1)]))
  /\ UNCHANGED << statsVars, namesVars, input, last, appVars >>

\* ---- loadLevelNames of useLevelNames ----
\* the cache lookup made at the call
NamesCache(p) ==
  /\ At(p, "loadLevelNames", "start")
  /\ Resume(p, IF MapHas(levelNamesCache, calls[p].slug)
                 THEN Return(calls[p], {levelNamesCache[calls[p].slug]})
                 ELSE [calls[p] EXCEPT !.pc = "storage"])
  /\ UNCHANGED << statsVars, namesVars, input, last, appVars >>

\* const stored = await loadFromStorage(slug), and the cache entry on a hit
NamesStorage(p) ==
  /\ At(p, "loadLevelNames", "storage")
  /\ LET c == calls[p]
         stored == loadFromStorage(levelNamesStore, c.slug)
     IN  IF StoredHit(stored)
           THEN /\ levelNamesCache' = MapSet(levelNamesCache, c.slug, CHOOSE x \in stored : TRUE)
                /\ Resume(p, Return(c, stored))
           ELSE /\ Resume(p, [c EXCEPT !.pc = "ledger"])
                /\ UNCHANGED levelNamesCache
  /\ UNCHANGED << statsVars, ledger, library, levelNamesStore, nullResolved, input, last, appVars >>

\* const downloadInfo = await getDownloadInfo(slug)
NamesLedger(p) ==
  /\ At(p, "loadLevelNames", "ledger")
  /\ Resume(p, IF getDownloadInfo(calls[p].slug) = {}
                 THEN Return(calls[p], {})
                 ELSE [calls[p] EXCEPT !.pc = "file"])
  /\ UNCHANGED << statsVars, namesVars, input, last, appVars >>

\* await readFile(wadPath), the parse, and the cache entry when names were
\* found; the map found is kept for saveToStorage
NamesFileRead(p) ==
  /\ At(p, "loadLevelNames", "file")
  /\ LET c == calls[p]
         Found(parsed) ==
           IF ~parsed.threw /\ HasNames(parsed.levels)
             THEN /\ levelNamesCache' = MapSet(levelNamesCache, c.slug, parsed.levels)
                  /\ Resume(p, [c EXCEPT !.pc = "persist", !.levelNames = parsed.levels])
             ELSE /\ Resume(p, Return(c, {}))
                  /\ UNCHANGED levelNamesCache
         Read(downloadInfo) == Found(ParseInstalled(downloadInfo.filename,
                                                    library[downloadInfo.filename]))
     IN  Read(CHOOSE x \in getDownloadInfo(c.slug) : TRUE)
  /\ UNCHANGED << statsVars, ledger, library, levelNamesStore, nullResolved, input, last, appVars >>

\* await saveToStorage(slug, allLevels); return allLevels
NamesPersist(p) ==
  /\ At(p, "loadLevelNames", "persist")
  /\ \E w \in saveToStorage(levelNamesStore, calls[p].slug, calls[p].levelNames) :
       /\ levelNamesStore' = w.store
       /\ Resume(p, Return([calls[p] EXCEPT !.failed = w.failed], {calls[p].levelNames}))
  /\ UNCHANGED << statsVars, ledger, library, levelNamesCache, nullResolved, input, last, appVars >>

\* ---- the environment the invocations start in ----
OverlapOps == {"captureStats", "loadAllSessions", "loadLevelNames"}

\* save directories the engine has left: none, one save, two saves
OverlapSaves ==
  { [exists |-> FALSE, readable |-> TRUE, files |-> << >>],
    [exists |-> TRUE, readable |-> TRUE, files |-> (NameAuto :> SaveEntry)],
    [exists |-> TRUE, readable |-> TRUE, files |-> (NameAuto :> SaveEntry) @@ (NameSave :> SaveFast)] }

\* stats directories of a slug: none, or what a capture of the save SaveSlow left
OverlapStats(slug) ==
  {[exists |-> FALSE, files |-> << >>]} \cup
  {run.dir : run \in {r \in CaptureRuns(slug, [exists |-> TRUE, files |-> << >>],
                                        (NameAuto :> SaveSlow), << NameAuto >>) : ~r.failed}}

\* the ledger and the library after both slugs were downloaded
OverlapInstalled ==
  /\ ledger = [state |-> "ok",
               downloads |-> [s \in Slugs |->
                                CHOOSE e \in DownloadCatalogue :
                                  e.slug = s /\ e.filename \in {FileDoomWad, FileModPk3}]]
  /\ library = [f \in Filenames |-> IF f = FileDoomWad THEN WadEntryway
                                    ELSE IF f = FileModPk3 THEN ZipBoth ELSE NoFile]
  /\ levelNamesStore = [s \in Slugs |-> {}]
  /\ levelNamesCache = EmptyMap
  /\ nullResolved = {}

\* invocation 1 is for the first slug; invocation 2 is for either slug
InitOverlap ==
  /\ \E saves \in OverlapSaves : savesDir = [s \in Slugs |-> saves]
  /\ \E made \in BOOLEAN :
       statsDir = [s \in Slugs |->
                     CHOOSE d \in OverlapStats(s) : d.exists = made]
  /\ capturedClean = [s \in Slugs |-> FALSE]
  /\ OverlapInstalled
  /\ \E op1, op2 \in OverlapOps : \E slug2 \in Slugs :
       calls = [p \in Procs |-> IF p = 1 THEN Call(op1, << "s", "1" >>) ELSE Call(op2, slug2)]
  /\ AppIdle
  /\ input = [savesDir |-> savesDir, statsDir |-> statsDir]
  /\ last = [op |-> "init"]

NextOverlap ==
  \/ \E p \in Procs : CapExists(p)
  \/ \E p \in Procs : CapMkdir(p)
  \/ \E p \in Procs : CapLoadNames(p)
  \/ \E p \in Procs : CapReadDir(p)
  \/ \E p \in Procs : CapCheck(p)
  \/ \E p \in Procs : CapWrite(p)
  \/ \E p \in Procs : CapSaveNames(p)
  \/ \E p \in Procs : AllExists(p)
  \/ \E p \in Procs : AllLoadNames(p)
  \/ \E p \in Procs : AllReadDir(p)
  \/ \E p \in Procs : AllRead(p)
  \/ \E p \in Procs : NamesCache(p)
  \/ \E p \in Procs : NamesStorage(p)
  \/ \E p \in Procs : NamesLedger(p)
  \/ \E p \in Procs : NamesFileRead(p)
  \/ \E p \in Procs : NamesPersist(p)

SpecOverlap == InitOverlap /\ [][NextOverlap]_vars

(***************************************************************************)
(* A batch of save files of every kind                                     *)
(***************************************************************************)
\* readFile throws
SaveUnread == [SaveFile(60, {}, {}) EXCEPT !.readOk = FALSE]
\* an archive without globals.json
SaveNoGlobals == SaveFile(61, {}, {[valid |-> TRUE, Comment |-> CommentEntryway]})
\* globals.json is no JSON
SaveBadJson == SaveFile(62, {[Globals({2}, {TxtMAP01}, << RawLevel(TxtMAP01, 1, 2, 5) >>)
                               EXCEPT !.valid = FALSE]},
                        {[valid |-> TRUE, Comment |-> CommentEntryway]})
\* statistics.levels is missing or empty
SaveNoLevels == SaveFile(63, {Globals({2}, {TxtMAP01}, << >>)},
                         {[valid |-> TRUE, Comment |-> CommentEntryway]})

\* a save whose statistics hold a kill count below zero
SaveNegative == SaveFile(64, {Globals({2}, {TxtMAP01}, << RawLevel(TxtMAP01, 0 - 1, 2, 5) >>)}, {})

\* the state of SaveFast, saved while MAP01 was shown under another name
SaveRenamed == [SaveFast EXCEPT !.info = {[valid |-> TRUE,
                                          Comment |-> TxtMAP01 \o << " ", "-", " " >> \o TxtHangar]}]

\* two saves of maps whose lump names are AQ and B0, the counters alike
TxtAQ == << "A", "Q" >>
TxtB0 == << "B", "0" >>
SaveAQ == SaveFile(70, {Globals({2}, {TxtMAP01}, << RawLevel(TxtAQ, 1, 2, 5) >>)}, {})
SaveB0 == SaveFile(71, {Globals({2}, {TxtMAP01}, << RawLevel(TxtB0, 1, 2, 5) >>)}, {})

\* what each file name of the batch can hold
BatchCatalogue ==
  { [name |-> NameAuto, file |-> SaveEntry],
    [name |-> NameAuto, file |-> SaveNegative],
    [name |-> NameAuto, file |-> SaveAQ],
    [name |-> NameAuto, file |-> SaveCorrupt],
    [name |-> NameAuto, file |-> SaveUnread],
    [name |-> NameSave, file |-> SaveFast],
    [name |-> NameSave, file |-> SaveRenamed],
    [name |-> NameSave, file |-> SaveB0],
    [name |-> NameSave, file |-> SaveNoGlobals],
    [name |-> NameSave, file |-> SaveBadJson],
    [name |-> NameSave, file |-> SaveNoLevels] }

\* the save directories made of catalogue files, at most one per name
BatchDirs ==
  {[exists |-> FALSE, readable |-> TRUE, files |-> << >>]} \cup
  {[exists |-> TRUE, readable |-> readable,
    files |-> [n \in {e.name : e \in picked} |-> (CHOOSE e \in picked : e.name = n).file]] :
     readable \in BOOLEAN,
     picked \in {S \in SUBSET BatchCatalogue : \A e1, e2 \in S : e1.name = e2.name => e1 = e2}}

InitBatch ==
  /\ \E saves \in BatchDirs :
       savesDir = [s \in Slugs |-> IF s \in StatsSlugs THEN saves
                                   ELSE [exists |-> FALSE, readable |-> TRUE, files |-> << >>]]
  /\ \E made \in BOOLEAN : statsDir = [s \in Slugs |-> [exists |-> made, files |-> << >>]]
  /\ capturedClean = [s \in Slugs |-> FALSE]
  /\ NamesIdle
  /\ CallsIdle
  /\ AppIdle
  /\ input = << >>
  /\ last = [op |-> "init"]

NextBatch ==
  \/ \E slug \in StatsSlugs : captureStats(slug)
  \/ \E slug \in StatsSlugs : LoadAllSessions(slug)

SpecBatch == InitBatch /\ [][NextBatch]_vars

(***************************************************************************)
(* The level-name files as text: JSON.stringify(Object.fromEntries(map),   *)
(* null, 2) on the way out, new Map(Object.entries(JSON.parse(text))) on   *)
(* the way in.  Here the stored map of a slug and the content of           *)
(* level-names.json are the characters written.                            *)
(***************************************************************************)
\* "key": "value" of one property, after the indentation
StringifyProperty(names, key) ==
  << " ", " " >> \o JSONString(key) \o << ":", " " >> \o JSONString(names[key])

RECURSIVE StringifyProperties(_, _, _)
StringifyProperties(names, keys, i) ==
  IF i > Len(keys) THEN << >>
  ELSE StringifyProperty(names, keys[i])
       \o (IF i < Len(keys) THEN << ",", NL >> ELSE << NL >>)
       \o StringifyProperties(names, keys, i + 1)

\* JSON.stringify(Object.fromEntries(names), null, 2), the properties being
\* written in the order keys
StringifyNames(names, keys) ==
  IF keys = << >> THEN << "{", "}" >>
  ELSE << "{", NL >> \o StringifyProperties(names, keys, 1) \o << "}" >>

\* the index of the first character of s at or after i that is no white space
RECURSIVE SkipSpace(_, _)
SkipSpace(s, i) == IF i <= Len(s) /\ s[i] \in {" ", NL} THEN SkipSpace(s, i + 1) ELSE i

\* the characters of a JSON string whose opening quote is before i:
\* [ok, value, next], next being the index after the closing quote
RECURSIVE ParseChars(_, _, _)
ParseChars(s, i, value) ==
  IF i > Len(s) \/ s[i] = NL THEN [ok |-> FALSE, value |-> value, next |-> i]
  ELSE IF s[i] = "\"" THEN [ok |-> TRUE, value |-> value, next |-> i + 1]
  ELSE IF s[i] # "\\" THEN ParseChars(s, i + 1, Append(value, s[i]))
  ELSE IF i = Len(s) THEN [ok |-> FALSE, value |-> value, next |-> i]
  ELSE IF s[i + 1] \in {"\"", "\\"} THEN ParseChars(s, i + 2, Append(value, s[i + 1]))
  ELSE IF s[i + 1] = "n" THEN ParseChars(s, i + 2, Append(value, NL))
  ELSE [ok |-> FALSE, value |-> value, next |-> i]

ParseString(s, i) ==
  IF i <= Len(s) /\ s[i] = "\"" THEN ParseChars(s, i + 1, << >>)
  ELSE [ok |-> FALSE, value |-> << >>, next |-> i]

\* the properties of a JSON object from index i, i being at a key: {} when
\* the text is no JSON, else {map}; a key that comes again replaces its value
RECURSIVE ParseProperties(_, _, _)
ParseProperties(s, i, names) ==
  LET Rest(key, value, k) ==
        IF k <= Len(s) /\ s[k] = ","
          THEN ParseProperties(s, SkipSpace(s, k + 1), MapSet(names, key, value))
        ELSE IF k <= Len(s) /\ s[k] = "}" /\ SkipSpace(s, k + 1) > Len(s)
          THEN {MapSet(names, key, value)}
        ELSE {}
      Value(key, v) == IF v.ok THEN Rest(key, v.value, SkipSpace(s, v.next)) ELSE {}
      Colon(key, k) ==
        IF k <= Len(s) /\ s[k] = ":" THEN Value(key, ParseString(s, SkipSpace(s, k + 1))) ELSE {}
      Key(key) == IF key.ok THEN Colon(key.value, SkipSpace(s, key.next)) ELSE {}
  IN  Key(ParseString(s, i))

\* new Map(Object.entries(JSON.parse(content))) for a text that is an object
\* of strings: {} when JSON.parse throws, else {map}
ParseNames(content) ==
  LET Open(i) ==
        IF i > Len(content) \/ content[i] # "{" THEN {}
        ELSE IF SkipSpace(content, i + 1) <= Len(content) /\ content[SkipSpace(content, i + 1)] = "}"
          THEN (IF SkipSpace(content, SkipSpace(content, i + 1) + 1) > Len(content)
                  THEN {EmptyMap} ELSE {})
        ELSE ParseProperties(content, SkipSpace(content, i + 1), EmptyMap)
  IN  Open(SkipSpace(content, 1))

\* the level names the round trip is made with
MaxNames == 2
NameKeys == { << "M", "1" >>, << "7" >>, << "E", "\\" >> }
NameValues == { << "A" >>, << "\"" >>, << "\\", "n" >>, << "a", NL >> }
NameMaps ==
  UNION {[keys -> NameValues] : keys \in {K \in SUBSET NameKeys : Cardinality(K) <= MaxNames}}

RoundTripSlug == << "s", "1" >>

\* saveToStorage(slug, levels): the text is written, or mkdir or
\* writeTextFile throws and the catch block only logs
SaveToStorage(names) ==
  /\ \E keys \in Orders(DOMAIN names) :
     \E written \in BOOLEAN :
       /\ levelNamesStore' = IF written
                               THEN [levelNamesStore EXCEPT ![RoundTripSlug] = {StringifyNames(names, keys)}]
                               ELSE levelNamesStore
       /\ last' = [op |-> "saveToStorage", outcome |-> "returned", names |-> names,
                   writeFailed |-> ~written]
  /\ UNCHANGED << statsVars, ledger, library, levelNamesCache, nullResolved, input, calls, appVars >>

\* the save a load follows at once, for the record of the load
SaveBefore ==
  IF last.op \in {"saveToStorage", "saveLevelNames"} THEN last
  ELSE [op |-> "none", outcome |-> "none"]

\* loadFromStorage(slug): null when the file is missing or is no JSON
LoadFromStorage ==
  /\ last' = [op |-> "loadFromStorage", outcome |-> "returned",
              ret |-> IF levelNamesStore[RoundTripSlug] = {} THEN {}
                      ELSE ParseNames(CHOOSE t \in levelNamesStore[RoundTripSlug] : TRUE),
              after |-> SaveBefore]
  /\ UNCHANGED << statsVars, namesVars, input, calls, appVars >>

\* saveLevelNames(statsDir, names) of useStats: the text is written, or
\* writeTextFile throws and so does saveLevelNames
SaveLevelNames(names) ==
  /\ \E keys \in Orders(DOMAIN names) :
     \E written \in BOOLEAN :
       /\ written => statsDir[RoundTripSlug].exists
       /\ statsDir' = IF written
                        THEN [statsDir EXCEPT ![RoundTripSlug] =
                                WriteFile(@, LevelNamesFile, NamesFile(StringifyNames(names, keys)))]
                        ELSE statsDir
       /\ last' = [op |-> "saveLevelNames", outcome |-> IF written THEN "returned" ELSE "threw",
                   names |-> names, writeFailed |-> ~written]
  /\ UNCHANGED << savesDir, capturedClean, namesVars, input, calls, appVars >>

\* loadLevelNames(statsDir) of useStats: an empty map when the file is
\* missing or is no JSON
StatsLoadLevelNames ==
  /\ LET dir == statsDir[RoundTripSlug]
         Loaded(parsed) == IF parsed = {} THEN EmptyMap ELSE CHOOSE x \in parsed : TRUE
     IN  last' = [op |-> "loadLevelNames", outcome |-> "returned",
                  ret |-> IF dir.exists /\ LevelNamesFile \in DOMAIN dir.files
                            THEN Loaded(ParseNames(dir.files[LevelNamesFile].data))
                            ELSE EmptyMap,
                  after |-> SaveBefore]
  /\ UNCHANGED << statsVars, namesVars, input, calls, appVars >>

InitRoundTrip ==
  /\ StatsIdle
  /\ NamesIdle
  /\ CallsIdle
  /\ AppIdle
  /\ input \in NameMaps
  /\ last = [op |-> "init"]

\* mkdir(statsDir) of captureStats, which runs before saveLevelNames
MakeStatsDir ==
  /\ ~statsDir[RoundTripSlug].exists
  /\ statsDir' = [statsDir EXCEPT ![RoundTripSlug].exists = TRUE]
  /\ last' = [op |-> "env"]
  /\ UNCHANGED << savesDir, capturedClean, namesVars, input, calls, appVars >>

NextRoundTrip ==
  \/ SaveToStorage(input)
  \/ LoadFromStorage
  \/ MakeStatsDir
  \/ SaveLevelNames(input)
  \/ StatsLoadLevelNames

SpecRoundTrip == InitRoundTrip /\ [][NextRoundTrip]_vars

(***************************************************************************)
(* Stats directories with files of every kind, for loadAllSessions         *)
(***************************************************************************)
NameBad == << "b", "a", "d" >> \o ExtJson
NameJunk == << "0", "j", "u", "n", "k" >> \o ExtJson

\* the stats directory after a capture of the saves SaveEntry and SaveFast:
\* two session files and level-names.json
CapturedDir(slug) ==
  (CHOOSE run \in CaptureRuns(slug, [exists |-> TRUE, files |-> << >>],
                              (NameAuto :> SaveEntry) @@ (NameSave :> SaveFast),
                              << NameAuto, NameSave >>) : ~run.failed).dir

\* a file whose text cannot be read or is no JSON
UnreadableFile == [kind |-> "junk", data |-> << >>]

\* The files a stats directory can hold: those of a capture, a .json file
\* with a session of another schema version, a .json file that cannot be
\* read, and a file that is no .json
LoadCatalogue(slug) ==
  LET captured == CapturedDir(slug).files
      session == captured[CHOOSE n \in SessionFilesOf(CapturedDir(slug)) : TRUE].data
  IN  captured
      @@ (NameBad :> SessionFile([session EXCEPT !.schemaVersion = 2]))
      @@ (NameJunk :> UnreadableFile)
      @@ (NameNotes :> UnreadableFile)

LoadDirs(slug) ==
  {[exists |-> FALSE, files |-> << >>]} \cup
  {[exists |-> TRUE, files |-> [n \in S |-> LoadCatalogue(slug)[n]]] :
     S \in SUBSET DOMAIN LoadCatalogue(slug)}

InitLoad ==
  /\ savesDir = [s \in Slugs |-> [exists |-> FALSE, readable |-> TRUE, files |-> << >>]]
  /\ \E slug \in StatsSlugs : \E dir \in LoadDirs(slug) :
       statsDir = [s \in Slugs |-> IF s = slug THEN dir ELSE [exists |-> FALSE, files |-> << >>]]
  /\ capturedClean = [s \in Slugs |-> FALSE]
  /\ NamesIdle
  /\ CallsIdle
  /\ AppIdle
  /\ input = << >>
  /\ last = [op |-> "init"]

NextLoad ==
  \/ \E slug \in StatsSlugs : LoadAllSessions(slug)
  \/ \E slug \in StatsSlugs : getUniqueLevelsPlayed(slug)
  \/ \E slug \in StatsSlugs : getAggregatedStats(slug)

SpecLoad == InitLoad /\ [][NextLoad]_vars

(***************************************************************************)
(* Properties of capture                                                   *)
(***************************************************************************)
\* the fields of a session that define the gameplay state
GameplayLevel(l) ==
  [id |-> l.id, kills |-> l.kills, totalKills |-> l.totalKills, items |-> l.items,
   totalItems |-> l.totalItems, secrets |-> l.secrets, totalSecrets |-> l.totalSecrets,
   timeTics |-> l.timeTics]

GameplayState(session) ==
  [wadSlug |-> session.wadSlug, skill |-> session.skill, startLevel |-> session.startLevel,
   levels |-> [i \in 1..Len(session.levels) |-> GameplayLevel(session.levels[i])]]

\* the gameplay state a save file of a slug parses to: {} or {state}
ParsedState(slug, name, file) ==
  {GameplayState(x) : x \in parseSaveForStats(getSavesDir(slug) \o << name >>, name, file)}

TwinSaves(slug, st) ==
  \E n1, n2 \in ListedSaves(savesDir[slug].files) :
    /\ n1 # n2
    /\ savesDir[slug].files[n1].mtime # savesDir[slug].files[n2].mtime
    /\ ParsedState(slug, n1, savesDir[slug].files[n1]) = {st}
    /\ ParsedState(slug, n2, savesDir[slug].files[n2]) = {st}

StoredWithState(slug, st) ==
  {n \in SessionFilesOf(statsDir[slug]) : GameplayState(statsDir[slug].files[n].data) = st}

TwinStates(slug) ==
  {st \in UNION {ParsedState(slug, n, savesDir[slug].files[n]) : n \in DOMAIN savesDir[slug].files} :
     TwinSaves(slug, st)}

\* C2: after captureStats(slug) over a readable save directory that holds two
\* files of one gameplay state under different names and times, exactly one
\* persisted session has that state.
C2_ExactlyOneSession ==
  (last.op = "captureStats" /\ savesDir[last.slug].exists /\ savesDir[last.slug].readable)
    => \A st \in TwinStates(last.slug) : Cardinality(StoredWithState(last.slug, st)) = 1

\* C4: an operation in which a write failed does not complete normally.
C4_WriteFailureSurfaced ==
  (last.op \in {"captureStats", "loadLevelNames"} /\ last.writeFailed) => last.outcome = "threw"

\* a session write fails in a captureStats that returns normally
C4_Counterexample ==
  /\ last.op = "captureStats" /\ last.writeFailed /\ last.outcome = "returned"
  /\ statsDir[last.slug].exists

\* captureStats returned although no session of a twin state is stored
C2_Counterexample ==
  /\ last.op = "captureStats" /\ last.outcome = "returned" /\ last.writeFailed
  /\ savesDir[last.slug].exists /\ savesDir[last.slug].readable
  /\ \E st \in TwinStates(last.slug) : StoredWithState(last.slug, st) = {}

(***************************************************************************)
(* Properties of aggregation                                               *)
(***************************************************************************)
\* every (level, skill) of the valid session files of a stats directory
StoredRuns(dir) ==
  UNION {{WithSkill(dir.files[n].data.levels[i], dir.files[n].data.skill) :
            i \in 1..Len(dir.files[n].data.levels)} :
         n \in {m \in SessionFilesOf(dir) : PlaySessionSchema(dir.files[m].data)}}

RunsOfPair(dir, id, skill) == {r \in StoredRuns(dir) : r.id = id /\ r.skill = skill}

\* C10: getAggregatedStats(slug) returns exactly one entry for every
\* (level id, skill) pair of the stored sessions and none for any other pair;
\* the entry has the most kills of the pair and, among the entries with the
\* most kills, the least timeTics.
C10_BestPerLevelSkill ==
  last.op = "getAggregatedStats" =>
    LET dir == statsDir[last.slug]
        ret == last.ret
    IN  /\ \A r \in StoredRuns(dir) :
             LET entries == {k \in DOMAIN ret : ret[k].id = r.id /\ ret[k].skill = r.skill}
             IN  /\ Cardinality(entries) = 1
                 /\ \A k \in entries :
                      /\ \A o \in RunsOfPair(dir, r.id, r.skill) : o.kills <= ret[k].kills
                      /\ \A o \in RunsOfPair(dir, r.id, r.skill) :
                           o.kills = ret[k].kills => ret[k].timeTics <= o.timeTics
        /\ \A k \in DOMAIN ret : RunsOfPair(dir, ret[k].id, ret[k].skill) # {}

\* an aggregation over three stored runs of one (level, skill) pair, two of
\* them tied on kills
C10_Witness ==
  /\ last.op = "getAggregatedStats"
  /\ \E r1, r2, r3 \in StoredRuns(statsDir[last.slug]) :
       /\ r1.id = r2.id /\ r2.id = r3.id
       /\ r1.kills = r2.kills /\ r1.timeTics < r2.timeTics
       /\ r3.kills < r1.kills

(***************************************************************************)
(* Properties of level-name resolution                                     *)
(***************************************************************************)
IsPrefix(p, q) == Len(p) <= Len(q) /\ SubSeq(q, 1, Len(p)) = p

\* what recomputation from the installed file yields for a slug now
Recomputed(slug) ==
  LET downloadInfo == getDownloadInfo(slug)
  IN  IF downloadInfo = {} THEN EmptyMap
      ELSE LET filename == (CHOOSE x \in downloadInfo : TRUE).filename
               parsed == ParseInstalled(filename, library[filename])
           IN  IF parsed.threw THEN EmptyMap ELSE parsed.levels

NonEmptyStored(stored) == \E m \in stored : m # EmptyMap

\* C5: loadLevelNames consults memory, stored map, ledger and installed file
\* in that order and stops at the first tier that yields a non-empty map: a
\* memory hit reads nothing, a non-empty stored map keeps it from reading the
\* ledger and the installed file.
C5_TierOrder ==
  last.op = "loadLevelNames" =>
    /\ IsPrefix(last.reads, << "storage", "ledger", "file" >>)
    /\ last.cachedBefore # {} => (last.reads = << >> /\ last.ret = last.cachedBefore)
    /\ (last.cachedBefore = {} /\ NonEmptyStored(last.storedBefore))
         => (last.reads = << "storage" >> /\ last.ret = last.storedBefore)
    /\ (last.cachedBefore = {} /\ ~NonEmptyStored(last.storedBefore))
         => (Len(last.reads) >= 2 /\ (Recomputed(last.slug) # EmptyMap => last.ret = {Recomputed(last.slug)}))

\* a stored map answers the call although the ledger names an installed file
\* from which other names would be recomputed
C5_Witness ==
  /\ last.op = "loadLevelNames"
  /\ last.cachedBefore = {} /\ NonEmptyStored(last.storedBefore)
  /\ Recomputed(last.slug) # EmptyMap
  /\ {Recomputed(last.slug)} # last.storedBefore

\* C6: a loadLevelNames that reaches recomputation and obtains no names
\* returns null, leaves the slug uncached and writes no stored map; and a
\* call for a slug whose latest resolution was such a null returns the
\* recomputed names once recomputation yields some.
C6_EmptyLeavesNoTrace ==
  (last.op = "loadLevelNames" /\ last.cachedBefore = {} /\ ~NonEmptyStored(last.storedBefore)) =>
    /\ Recomputed(last.slug) = EmptyMap =>
         /\ last.ret = {}
         /\ ~MapHas(levelNamesCache, last.slug)
         /\ levelNamesStore[last.slug] = last.storedBefore
    /\ (last.nullBefore /\ Recomputed(last.slug) # EmptyMap) => last.ret = {Recomputed(last.slug)}

\* the retry after a null resolution returns names
C6_Witness ==
  /\ last.op = "loadLevelNames"
  /\ last.nullBefore
  /\ last.ret # {}
  /\ Len(last.reads) = 3

\* C7: when loadLevelNames returns a non-empty map obtained by recomputation,
\* the cache entry and the stored map of the slug both hold that map.
C7_WriteThrough ==
  (last.op = "loadLevelNames" /\ Len(last.reads) = 3 /\ NonEmptyStored(last.ret)) =>
    /\ MapHas(levelNamesCache, last.slug) /\ {levelNamesCache[last.slug]} = last.ret
    /\ levelNamesStore[last.slug] = last.ret

\* names were recomputed, cached and returned while the stored map is missing
C7_Counterexample ==
  /\ last.op = "loadLevelNames" /\ Len(last.reads) = 3 /\ NonEmptyStored(last.ret)
  /\ last.writeFailed
  /\ levelNamesStore[last.slug] # last.ret

\* what re-resolving a slug without its cache entry yields, read off the
\* state after the rescan (stored maps are never removed)
ResolvedNow(slug) ==
  IF NonEmptyStored(levelNamesStore[slug]) THEN CHOOSE m \in levelNamesStore[slug] : TRUE
  ELSE Recomputed(slug)

LedgerSlugs == IF ledger.state = "ok" THEN DOMAIN ledger.downloads ELSE {}

\* C8: rescanAllWads drops the cache entry of every ledger slug and
\* re-resolves it, returns the number of ledger slugs that resolved to a
\* non-empty map, leaves the cache entries of other slugs alone, and returns
\* 0 for an unreadable or invalid ledger.
C8_Rescan ==
  last.op = "rescanAllWads" =>
    /\ ledger.state # "ok" => (last.ret = 0 /\ levelNamesCache = last.cacheBefore)
    /\ last.ret = Cardinality({s \in LedgerSlugs : ResolvedNow(s) # EmptyMap})
    /\ \A s \in LedgerSlugs :
         IF ResolvedNow(s) # EmptyMap
           THEN MapHas(levelNamesCache, s) /\ levelNamesCache[s] = ResolvedNow(s)
           ELSE ~MapHas(levelNamesCache, s)
    /\ \A s \in Slugs \ LedgerSlugs :
         /\ MapHas(levelNamesCache, s) <=> MapHas(last.cacheBefore, s)
         /\ MapHas(levelNamesCache, s) => levelNamesCache[s] = last.cacheBefore[s]

\* a rescan that replaces a stale cache entry of a ledger slug and keeps the
\* entry of a slug that is not in the ledger
C8_Witness ==
  /\ last.op = "rescanAllWads"
  /\ last.ret = 1
  /\ \E s \in LedgerSlugs : MapHas(last.cacheBefore, s) /\ MapHas(levelNamesCache, s)
                            /\ last.cacheBefore[s] # levelNamesCache[s]
  /\ \E s \in Slugs \ LedgerSlugs : MapHas(levelNamesCache, s)

(***************************************************************************)
(* Properties of the fingerprint                                           *)
(***************************************************************************)
\* C3: two candidate sessions that agree on slug, skill, start level and the
\* id and counters of every level have the same fingerprint, whatever their
\* source files, capture times and level names, names backfilled before
\* hashing included.
C3_FingerprintDependsOnState ==
  last.op = "generateSessionHash" =>
    /\ GameplayState(input.a) = GameplayState(input.b) => last.a = last.b
    /\ last.raw = last.a

\* equal fingerprints of two sessions of one state from different files with
\* different names, one of them renamed by the backfill
C3_Witness ==
  /\ last.op = "generateSessionHash"
  /\ GameplayState(input.a) = GameplayState(input.b)
  /\ input.a.sourceFile # input.b.sourceFile
  /\ input.a.capturedAt # input.b.capturedAt
  /\ ApplyKnownNames(input.a, input.levelNames) # input.a
  /\ ApplyKnownNames(input.b, input.levelNames).levels[1].name
       # ApplyKnownNames(input.a, input.levelNames).levels[1].name

(***************************************************************************)
(* Properties of parseMapinfoContent                                       *)
(***************************************************************************)
\* the names assigned by the first k lines of the lump
ParsedPrefix(k) == parseMapinfoContent(input.lumpName, JoinLines(SubSeq(input.lines, 1, k)))

\* C9: a name that the first lines of a lump assign to a level id is the
\* name the whole lump gives it: later assignments to the id do not
\* overwrite the first one, in every grammar.
C9_FirstAssignmentWins ==
  last.op = "parseMapinfoContent" =>
    \A k \in 0..Len(input.lines) :
      \A id \in DOMAIN ParsedPrefix(k) :
        MapHas(last.ret, id) /\ last.ret[id] = ParsedPrefix(k)[id]

\* the second name given to an id is the one returned
C9_Counterexample ==
  /\ last.op = "parseMapinfoContent"
  /\ \E k \in 0..Len(input.lines) :
       \E id \in DOMAIN ParsedPrefix(k) : last.ret[id] # ParsedPrefix(k)[id]

(***************************************************************************)
(* Properties of overlapping invocations                                   *)
(***************************************************************************)
\* The ways one captureStats(slug) that runs alone can end from the stats
\* directory dir: [ret, dir, failed], failed telling whether a mkdir or a
\* write failed
CaptureOutcomes(slug, saves, dir) ==
  IF ~saves.exists THEN {[ret |-> 0, dir |-> dir, failed |-> FALSE]}
  ELSE (IF dir.exists THEN {} ELSE {[ret |-> 0, dir |-> dir, failed |-> TRUE]})
       \cup (IF ~saves.readable
               THEN {[ret |-> 0, dir |-> dir0, failed |-> ~dir0.exists] : dir0 \in AfterMkdir(dir)}
               ELSE UNION {UNION {{[ret |-> run.count, dir |-> run.dir,
                                    failed |-> run.failed \/ ~dir0.exists] :
                                     run \in CaptureRuns(slug, dir0, saves.files, saveFiles)} :
                                  saveFiles \in Orders(ListedSaves(saves.files))} :
                           dir0 \in AfterMkdir(dir)})

Done(p, op) == calls[p].op = op /\ calls[p].pc = "done"

Returned(p) == CHOOSE x \in calls[p].ret : TRUE

\* both invocations are captureStats of one slug and both have returned
BothCaptured ==
  /\ CallsIdle = FALSE
  /\ \A p \in Procs : Done(p, "captureStats")
  /\ calls[1].slug = calls[2].slug

\* the returned counts and the stats directory are those of running the
\* invocation first and then the invocation second, each alone
InSomeOrder(first, second) ==
  LET slug == calls[first].slug
  IN  \E o1 \in CaptureOutcomes(slug, input.savesDir[slug], input.statsDir[slug]) :
        /\ o1.ret = Returned(first)
        /\ \E o2 \in CaptureOutcomes(slug, input.savesDir[slug], o1.dir) :
             /\ o2.ret = Returned(second)
             /\ o2.dir = statsDir[slug]

\* C11: when two overlapping captureStats calls for one slug have both
\* returned, the stored level names, the stored sessions and the two counts
\* are those of the two calls run one after the other in some order
C11_OverlapLosesNothing ==
  BothCaptured => InSomeOrder(1, 2) \/ InSomeOrder(2, 1)

\* both calls found the one new session missing and each wrote and counted it
C11_Counterexample ==
  /\ BothCaptured
  /\ Returned(1) = 1 /\ Returned(2) = 1
  /\ ~calls[1].failed /\ ~calls[2].failed
  /\ Cardinality(SessionFilesOf(statsDir[calls[1].slug]))
       = Cardinality(SessionFilesOf(input.statsDir[calls[1].slug])) + 1

\* the cache entry of a slug: {} when absent, else {map}
CacheEntry(cache, slug) == IF MapHas(cache, slug) THEN {cache[slug]} ELSE {}

\* The invocation p has returned what its operation returns when it runs
\* alone from the initial environment, and the stats directory, the stored
\* names, the cache entry of its slug and the writes that failed are those
\* of that run.
AsAlone(p) ==
  LET slug == calls[p].slug
      Capture(outcomes) ==
        /\ \E o \in outcomes : /\ o.ret = Returned(p) /\ o.dir = statsDir[slug]
                               /\ o.failed = calls[p].failed
        /\ levelNamesStore[slug] = {}
        /\ CacheEntry(levelNamesCache, slug) = {}
      Sessions(sessions) ==
        /\ Returned(p) = sessions
        /\ statsDir[slug] = input.statsDir[slug]
        /\ levelNamesStore[slug] = {}
        /\ CacheEntry(levelNamesCache, slug) = {}
      Names(results) ==
        /\ \E r \in results :
             /\ Returned(p) = r.ret /\ calls[p].failed = r.writeFailed
             /\ levelNamesStore[slug] = r.store[slug]
             /\ CacheEntry(levelNamesCache, slug) = CacheEntry(r.cache, slug)
        /\ statsDir[slug] = input.statsDir[slug]
  IN  CASE calls[p].op = "captureStats" ->
             Capture(CaptureOutcomes(slug, input.savesDir[slug], input.statsDir[slug]))
        [] calls[p].op = "loadAllSessions" ->
             Sessions(loadAllSessions(input.statsDir[slug]))
        [] calls[p].op = "loadLevelNames" ->
             Names(loadLevelNames(EmptyMap, [s \in Slugs |-> {}], slug))

\* C12: when the two invocations are for different slugs, each one that has
\* returned has the return value, the persisted files and the cache entry
\* of its slug that it has when it runs alone, whatever the interleaving
C12_SlugsIndependent ==
  (CallsIdle = FALSE /\ calls[1].slug # calls[2].slug) =>
    \A p \in Procs : calls[p].pc = "done" => AsAlone(p)

\* a capture of two saves on one slug and a resolution from the installed
\* file on the other slug have both returned
C12_Witness ==
  /\ CallsIdle = FALSE
  /\ calls[1].slug # calls[2].slug
  /\ Done(1, "captureStats") /\ Returned(1) = 2
  /\ Done(2, "loadLevelNames") /\ Returned(2) # {}
  /\ CacheEntry(levelNamesCache, calls[2].slug) # {}

(***************************************************************************)
(* Properties of the stored sessions and of the returned count             *)
(***************************************************************************)
\* every session file of dir is a file of dir2 with the same content
SessionsKept(dir, dir2) ==
  \A n \in SessionFilesOf(dir) : n \in DOMAIN dir2.files /\ dir2.files[n] = dir.files[n]

NewSessions(dir, dir2) == SessionFilesOf(dir2) \ SessionFilesOf(dir)

Parseable(slug, saves) ==
  {n \in ListedSaves(saves.files) : ParsedState(slug, n, saves.files[n]) # {}}

\* the save directory without the listed files that do not parse
WithoutUnparseable(slug, saves) ==
  [saves EXCEPT !.files = [n \in (DOMAIN saves.files \ ListedSaves(saves.files))
                                    \cup Parseable(slug, saves) |-> saves.files[n]]]

\* C15: a captureStats over save files of which some cannot be read,
\* unzipped or parsed, or hold no statistics or no level, returns normally,
\* and its count, the stats directory it leaves (sessions and names) and
\* the failed writes are those of a run over the directory without these
\* files
C15_BadSavesSkipped ==
  [][last'.op = "captureStats" =>
       /\ last'.outcome = "returned"
       /\ \E o \in CaptureOutcomes(last'.slug,
                                   WithoutUnparseable(last'.slug, savesDir[last'.slug]),
                                   statsDir[last'.slug]) :
            /\ o.ret = last'.ret /\ o.dir = statsDir'[last'.slug]
            /\ o.failed = last'.writeFailed]_vars

\* a run over a save file that does not parse and one that does has stored
\* the session of the one that does
C15_Witness ==
  /\ last.op = "captureStats" /\ last.ret = 1 /\ ~last.writeFailed
  /\ Cardinality(ListedSaves(savesDir[last.slug].files)) = 2
  /\ Cardinality(Parseable(last.slug, savesDir[last.slug])) = 1
  /\ Cardinality(SessionFilesOf(statsDir[last.slug])) = 1

(***************************************************************************)
(* Properties of the level-name files                                      *)
(***************************************************************************)
\* the load that has just returned followed a save that returned normally
LoadedAfterSave(load, save) ==
  /\ last.op = load
  /\ last.after.op = save /\ last.after.outcome = "returned"

\* C16: a load of the persisted level names of a slug that follows a
\* completed save of a map for that slug returns a map with exactly the
\* pairs of the saved map, for the stored names of useLevelNames and for
\* level-names.json of useStats
C16_RoundTrip ==
  /\ LoadedAfterSave("loadFromStorage", "saveToStorage") => last.ret = {last.after.names}
  /\ LoadedAfterSave("loadLevelNames", "saveLevelNames") => last.ret = last.after.names

\* saveToStorage returned after its write failed, and the load that follows
\* finds nothing where a map with names was saved
C16_Counterexample ==
  /\ LoadedAfterSave("loadFromStorage", "saveToStorage")
  /\ last.after.writeFailed
  /\ last.after.names # EmptyMap
  /\ last.ret = {}

\* the text written is read back to the pairs it was made from
WrittenTextReadsBack ==
  /\ (LoadedAfterSave("loadFromStorage", "saveToStorage") /\ ~last.after.writeFailed)
       => last.ret = {last.after.names}
  /\ LoadedAfterSave("loadLevelNames", "saveLevelNames") => last.ret = last.after.names

(***************************************************************************)
(* Properties of the brace-styled grammar and of the lump names            *)
(***************************************************************************)
\* the levelname lines of LumpLines and the value each one gives
LevelnameLines ==
  { [line |-> TxtLevelnameEq \o TxtEntryway, value |-> TxtEntryway],
    [line |-> TxtLevelnameEq \o TxtHangar, value |-> TxtHangar],
    [line |-> TxtLevelnameEq \o << Q >> \o TxtUnderhalls \o << Q >>, value |-> TxtUnderhalls] }

\* the lump is one block of id whose levelname has the value: the header,
\* the opening brace and the levelname on three lines, or all on one line
IsBlockOf(lines, id, value) ==
  \/ \E l \in LevelnameLines :
       /\ l.value = value
       /\ lines = << TxtMAP \o << " " >> \o id, << "{" >>, l.line >>
  \/ lines = << OneLineBlock(id, value) >>

\* C17: parseMapinfoContent("UMAPINFO", ...) of a block MAP <ID> with
\* levelname = <value> inside it, quoted or not, on three lines or on one
\* line, returns exactly the pair <ID> -> <value>
C17_BraceStyled ==
  (last.op = "parseMapinfoContent" /\ input.lumpName = UMAPINFO) =>
    \A id \in {TxtMAP01, TxtMAP02}, value \in {TxtEntryway, TxtHangar, TxtUnderhalls} :
      IsBlockOf(input.lines, id, value) => last.ret = MapSet(EmptyMap, id, value)

\* MAP MAP02 { levelname = "Underhalls" } on one line yields no name
C17_Counterexample ==
  /\ last.op = "parseMapinfoContent" /\ input.lumpName = UMAPINFO
  /\ input.lines = << OneLineBlock(TxtMAP02, TxtUnderhalls) >>
  /\ last.ret = EmptyMap

\* the three-line blocks yield their pair
BlocksOnThreeLines ==
  (last.op = "parseMapinfoContent" /\ input.lumpName = UMAPINFO) =>
    \A id \in {TxtMAP01, TxtMAP02}, l \in LevelnameLines :
      input.lines = << TxtMAP \o << " " >> \o id, << "{" >>, l.line >>
        => last.ret = MapSet(EmptyMap, id, l.value)

\* C19: parseMapinfoContent called with a lump name that is none of
\* MAPINFO, ZMAPINFO, EMAPINFO, UMAPINFO throws instead of returning names
C19_UnknownLumpRejected ==
  (last.op = "parseMapinfoContent"
     /\ \A i \in 1..Len(mapinfoLumps) : input.lumpName # mapinfoLumps[i])
    => last.outcome = "threw"

\* the text of a lump named THINGS is read with the MAPINFO grammar and a
\* name is returned
C19_Counterexample ==
  /\ last.op = "parseMapinfoContent" /\ last.outcome = "returned"
  /\ input.lumpName = TxtTHINGS
  /\ input.lines = << MapinfoText(TxtMAP01, TxtEntryway) >>
  /\ last.ret = MapSet(EmptyMap, TxtMAP01, TxtEntryway)

(***************************************************************************)
(* Properties of the resolution from an archive                            *)
(***************************************************************************)
\* the names one entry of an archive defines as a nested level container
NestedNames(entry) ==
  IF endsWith(toLowerCase(entry.name), ExtWad) /\ entry.data.wad # {}
    THEN extractLevelNamesFromData(entry.data.wad).levels
    ELSE EmptyMap

\* the names one entry of an archive defines as a map-definition file
DirectNames(entry) ==
  IF IsMapinfoLump(toUpperCase(BaseName(entry.name)))
    THEN parseMapinfoContent(toUpperCase(BaseName(entry.name)), entry.data.text)
    ELSE EmptyMap

\* loadLevelNames has just read the archive of its slug: the entries read
ArchiveRead ==
  IF last.op = "loadLevelNames" /\ Len(last.reads) = 3 /\ getDownloadInfo(last.slug) # {}
    THEN library[(CHOOSE x \in getDownloadInfo(last.slug) : TRUE).filename].zip
    ELSE {}

\* C18: when loadLevelNames resolves an archive, an id that a nested level
\* container defines has the name of the first nested container that
\* defines it, whatever the direct map-definition entries say and wherever
\* they stand in the archive; an id that only direct entries define has the
\* name of the first of them
C18_NestedBeforeDirect ==
  \A entries \in ArchiveRead :
    LET nested(id) == {i \in 1..Len(entries) : MapHas(NestedNames(entries[i]), id)}
        direct(id) == {i \in 1..Len(entries) : MapHas(DirectNames(entries[i]), id)}
        First(S) == CHOOSE i \in S : \A j \in S : i <= j
        ids == UNION {DOMAIN NestedNames(entries[i]) \cup DOMAIN DirectNames(entries[i]) :
                        i \in 1..Len(entries)}
    IN  \A id \in ids :
          /\ last.ret # {}
          /\ MapHas(CHOOSE x \in last.ret : TRUE, id)
          /\ (CHOOSE x \in last.ret : TRUE)[id] =
               IF nested(id) # {} THEN NestedNames(entries[First(nested(id))])[id]
               ELSE DirectNames(entries[First(direct(id))])[id]

\* an archive whose first entry is a map definition that names MAP01
\* Entryway and whose second entry is a level container that names it
\* Hangar was resolved: MAP01 is Hangar, and MAP02 comes from the direct entry
C18_Witness ==
  /\ ArchiveRead = ZipBoth.zip
  /\ last.ret = {MapSet(MapSet(EmptyMap, TxtMAP01, TxtHangar), TxtMAP02, TxtUnderhalls)}

(***************************************************************************)
(* Properties of loadAllSessions                                           *)
(***************************************************************************)
\* the session files of a stats directory that loadAllSessions accepts
ValidSessionFiles(dir) ==
  {n \in DOMAIN dir.files :
     /\ endsWith(n, ExtJson) /\ n # LevelNamesFile
     /\ dir.files[n].kind = "session" /\ PlaySessionSchema(dir.files[n].data)}

\* the sessions a and b differ at most in the display names of their levels
SameButNames(a, b) ==
  /\ [a EXCEPT !.levels = << >>] = [b EXCEPT !.levels = << >>]
  /\ Len(a.levels) = Len(b.levels)
  /\ \A i \in 1..Len(a.levels) :
       [a.levels[i] EXCEPT !.name = << >>] = [b.levels[i] EXCEPT !.name = << >>]

InvalidStored(slug) ==
  {n \in SessionFilesOf(statsDir[slug]) : ~PlaySessionSchema(statsDir[slug].files[n].data)}

\* C21: every session file that captureStats has written passes
\* PlaySessionSchema (a level list that is not empty, counters and time that
\* are integers not below zero), so that a loadAllSessions that follows
\* returns one session for each session file
C21_StoredSessionsValid ==
  /\ \A slug \in Slugs : InvalidStored(slug) = {}
  /\ last.op = "loadAllSessions" =>
       Len(last.ret) = Cardinality(SessionFilesOf(statsDir[last.slug]))

\* capture has stored the session of a save whose kill count is -1, and the
\* loadAllSessions that followed left it out
C21_Counterexample ==
  /\ last.op = "loadAllSessions"
  /\ \E n \in InvalidStored(last.slug) :
       /\ statsDir[last.slug].files[n].data.levels[1].kills < 0
       /\ statsDir[last.slug].files[n].data.sourceFile = NameAuto
  /\ Len(last.ret) < Cardinality(SessionFilesOf(statsDir[last.slug]))


(***************************************************************************)
(* Name merging in captureStats                                            *)
(***************************************************************************)
\* the (id, name) pairs that the sessions parsed from the save files offer
OfferedNames(slug) ==
  UNION {UNION {{<< p.levels[i].id, p.levels[i].name >> : i \in 1..Len(p.levels)} :
                  p \in parseSaveForStats(getSavesDir(slug) \o << n >>, n, savesDir[slug].files[n])} :
         n \in ListedSaves(savesDir[slug].files)}

\* C22: a run of captureStats only adds to the name map of its slug: every id
\* that the map loaded from level-names.json held keeps its name in the map
\* the run leaves on disk, and every pair the run added comes from a parsed
\* save whose name for that id differs from the id.
C22_MergeOnlyAdds ==
  [][\A slug \in StatsSlugs :
       (last'.op = "captureStats" /\ last'.slug = slug) =>
         LET before == statsLoadLevelNames(statsDir[slug])
             after  == statsLoadLevelNames(statsDir'[slug])
         IN  /\ \A id \in DOMAIN before : MapHas(after, id) /\ after[id] = before[id]
             /\ \A id \in DOMAIN after \ DOMAIN before :
                  /\ after[id] # id
                  /\ << id, after[id] >> \in OfferedNames(slug)]_vars

\* a run has ended with MAP01 under the name it already had, although a save
\* of the directory offers another name for it
C22_Witness ==
  /\ last.op = "captureStats"
  /\ \E slug \in StatsSlugs :
       /\ last.slug = slug
       /\ LET names == statsLoadLevelNames(statsDir[slug])
          IN  /\ MapHas(names, TxtMAP01)
              /\ \E pair \in OfferedNames(slug) :
                   pair[1] = TxtMAP01 /\ pair[2] # TxtMAP01 /\ pair[2] # names[TxtMAP01]


(***************************************************************************)
(* Capture and resolution on one slug: captureStats keeps its names in     *)
(* <library>/stats/<slug>/level-names.json, loadLevelNames keeps its own   *)
(* in <library>/level-names/<slug>.json.                                   *)
(***************************************************************************)
SharedSlug == << "s", "1" >>

\* the saves of the slug
SharedSaves ==
  {[exists |-> FALSE, readable |-> TRUE, files |-> << >>],
   [exists |-> TRUE, readable |-> FALSE, files |-> << >>]} \cup
  {[exists |-> TRUE, readable |-> TRUE, files |-> [n \in {e.name} |-> e.file]] :
     e \in {[name |-> NameAuto, file |-> SaveEntry], [name |-> NameSave, file |-> SaveRenamed],
            [name |-> NameSave, file |-> SaveFast]}}

\* the installed file of the slug
SharedInstalled == {NoFile, WadEntryway, WadHangar, WadPlain}

InitShared ==
  /\ \E saves \in SharedSaves :
       savesDir = [s \in Slugs |-> IF s = SharedSlug THEN saves
                                   ELSE [exists |-> FALSE, readable |-> TRUE, files |-> << >>]]
  /\ \E made \in BOOLEAN : statsDir = [s \in Slugs |-> [exists |-> made, files |-> << >>]]
  /\ capturedClean = [s \in Slugs |-> FALSE]
  /\ ledger = [state |-> "ok", downloads |-> MapSet(EmptyMap, SharedSlug, [filename |-> FileDoomWad])]
  /\ \E file \in SharedInstalled :
       library = [f \in Filenames |-> IF f = FileDoomWad THEN file ELSE NoFile]
  /\ levelNamesStore = [s \in Slugs |-> {}]
  /\ levelNamesCache = EmptyMap
  /\ nullResolved = {}
  /\ CallsIdle
  /\ AppIdle
  /\ input = << >>
  /\ last = [op |-> "init"]

NextShared ==
  \/ captureStats(SharedSlug)
  \/ LoadLevelNames(SharedSlug)
  \/ ClearCache(SharedSlug)
  \/ \E e \in InstallCatalogue : e.filename = FileDoomWad /\ e.file \in SharedInstalled /\ Install(e)

SpecShared == InitShared /\ [][NextShared]_vars

\* the pairs of a map that may be absent
PairsOf(maybe) == UNION {{<< id, names[id] >> : id \in DOMAIN names} : names \in maybe}

\* C23: capture and resolution work on one map per slug: what loadLevelNames
\* returns once the memory cache has been cleared contains every pair that
\* captureStats has merged and persisted for the slug, and the map that
\* captureStats loads for backfill is the one loadLevelNames has persisted.
C23_OneSharedMap ==
  [][/\ (last'.op = "loadLevelNames" /\ last'.slug = SharedSlug /\ last'.cachedBefore = {}) =>
          PairsOf({statsLoadLevelNames(statsDir[SharedSlug])}) \subseteq PairsOf(last'.ret)
     /\ (last'.op = "captureStats" /\ last'.slug = SharedSlug /\ savesDir[SharedSlug].exists
         /\ levelNamesStore[SharedSlug] # {}) =>
          {statsLoadLevelNames(statsDir[SharedSlug])} = levelNamesStore[SharedSlug]]_vars

\* captureStats has persisted MAP01 under the name of a save, and
\* loadLevelNames, with nothing cached, has returned the name of the installed
\* file for it, which is another one
C23_Counterexample ==
  /\ last.op = "loadLevelNames" /\ last.slug = SharedSlug /\ last.cachedBefore = {}
  /\ MapHas(statsLoadLevelNames(statsDir[SharedSlug]), TxtMAP01)
  /\ statsLoadLevelNames(statsDir[SharedSlug])[TxtMAP01] = TxtEntryway
  /\ PairsOf(last.ret) = {<< TxtMAP01, TxtHangar >>}
  /\ levelNamesStore[SharedSlug] = last.ret


\* C24: after rescanAllWads, every ledger slug whose installed file is read
\* and yields names is cached under the map recomputed from that file as it
\* is now, also when an earlier parse left a non-empty stored map.
C24_RescanReparses ==
  last.op = "rescanAllWads" =>
    \A s \in LedgerSlugs :
      Recomputed(s) # EmptyMap => (MapHas(levelNamesCache, s) /\ levelNamesCache[s] = Recomputed(s))

\* a rescan has cached the stored map of an earlier parse for a ledger slug
\* whose installed file now yields other names
C24_Counterexample ==
  /\ last.op = "rescanAllWads"
  /\ \E s \in LedgerSlugs :
       /\ Recomputed(s) # EmptyMap
       /\ NonEmptyStored(levelNamesStore[s])
       /\ MapHas(levelNamesCache, s)
       /\ {levelNamesCache[s]} = levelNamesStore[s]
       /\ levelNamesCache[s] # Recomputed(s)


\* the candidates that the listed saves of a slug parse into
Candidates(slug) ==
  UNION {parseSaveForStats(getSavesDir(slug) \o << n >>, n, savesDir[slug].files[n]) :
         n \in ListedSaves(savesDir[slug].files)}

StoredStates(slug) ==
  {GameplayState(statsDir[slug].files[n].data) : n \in SessionFilesOf(statsDir[slug])}

\* C25: deduplication drops no gameplay state: when captureStats has run
\* without a failed write, the stats directory holds, for every save that
\* parsed into a candidate, a session of the candidate's gameplay state.
C25_NoStateDropped ==
  (last.op = "captureStats" /\ ~last.writeFailed /\ savesDir[last.slug].exists
   /\ savesDir[last.slug].readable) =>
    \A c \in Candidates(last.slug) : GameplayState(c) \in StoredStates(last.slug)

\* both saves parsed, one session was written without a failure, and the
\* state of the level B0 or of the level AQ is not stored
C25_Counterexample ==
  /\ last.op = "captureStats" /\ ~last.writeFailed /\ last.ret = 1
  /\ Cardinality({GameplayState(c) : c \in Candidates(last.slug)}) = 2
  /\ \E c \in Candidates(last.slug) :
       /\ c.levels[1].id \in {TxtAQ, TxtB0}
       /\ GameplayState(c) \notin StoredStates(last.slug)
  /\ Cardinality(SessionFilesOf(statsDir[last.slug])) = 1


\* C26: every entry of the memory cache is a non-empty map, whatever
\* loadLevelNames, rescanAllWads and clearCache calls have run.
C26_CacheEntriesNonEmpty ==
  \A s \in DOMAIN levelNamesCache : levelNamesCache[s] # EmptyMap

\* a rescan has cached the names of one ledger slug and left uncached another
\* one whose installed file yields no names
C26_Witness ==
  /\ last.op = "rescanAllWads"
  /\ \E s, t \in LedgerSlugs :
       /\ MapHas(levelNamesCache, s) /\ levelNamesCache[s] = Recomputed(s)
       /\ ~MapHas(levelNamesCache, t) /\ Recomputed(t) = EmptyMap


(***************************************************************************)
(* The aggregation as a function of the sequence of sessions               *)
(***************************************************************************)
AggLevel(id, kills, timeTics, items) ==
  [id |-> id, name |-> id, kills |-> kills, totalKills |-> 2, items |-> items, totalItems |-> 1,
   secrets |-> 0, totalSecrets |-> 0, timeTics |-> timeTics]

\* runs of MAP01 with few or all kills, fast or slow, with or without the item
AggRuns == {AggLevel(TxtMAP01, kills, timeTics, items) :
              kills \in {1, 2}, timeTics \in {5, 7}, items \in {0, 1}}

\* sessions of one level, and of two levels that may be the same map twice
AggSessions ==
  {[schemaVersion |-> 1, wadSlug |-> SharedSlug, startLevel |-> TxtMAP01, skill |-> skill,
    sourceFile |-> NameAuto, capturedAt |-> toISOString(10), levels |-> levels] :
   skill \in {HMP, UV},
   levels \in {<< l >> : l \in AggRuns} \cup
              {<< l, m >> : l \in AggRuns,
                            m \in {AggLevel(TxtMAP01, 2, 5, 1), AggLevel(TxtMAP02, 1, 7, 0)}}}

\* the orders in which the elements of a sequence can be gone through
Permuted(seq) == {[i \in 1..Len(seq) |-> seq[p[i]]] : p \in Orders(1..Len(seq))}

\* the sequences of sessions with the sessions and the levels of each session
\* in any order
Reordered(sessions) ==
  UNION {{[i \in 1..Len(q) |-> [q[i] EXCEPT !.levels = ls[i]]] :
            ls \in {f \in [1..Len(q) -> UNION {Permuted(q[j].levels) : j \in 1..Len(q)}] :
                      \A i \in 1..Len(q) : f[i] \in Permuted(q[i].levels)}} :
         q \in Permuted(sessions)}

\* the loops of getAggregatedStats over the sessions as given and over every
\* reordering of them
Aggregate ==
  /\ last.op = "init"
  /\ last' = [op |-> "aggregate", ret |-> AggregateSessions(EmptyMap, input),
              reordered |-> {AggregateSessions(EmptyMap, r) : r \in Reordered(input)}]
  /\ UNCHANGED << statsVars, namesVars, input, calls, appVars >>

InitAggregate ==
  /\ StatsIdle
  /\ NamesIdle
  /\ CallsIdle
  /\ AppIdle
  /\ input \in {<< a, b >> : a, b \in AggSessions}
  /\ last = [op |-> "init"]

NextAggregate == Aggregate

SpecAggregate == InitAggregate /\ [][NextAggregate]_vars

BytesPWAD == << 80, 87, 65, 68 >>
BytesPK == << 80, 75, 3, 4 >>
BytesHtml == << 60, 104, 116, 109 >>
BytesShort == << 80 >>

DownloadedFile(bytes) == [present |-> TRUE, wad |-> {}, zip |-> {}, bytes |-> bytes]

\* a validation that lets every file pass
validateDownload_unchecked(file, filename) == TRUE

\* validateDownload(path, filename) returns (TRUE) or throws (FALSE)
validateDownload(file, filename) ==
  LET bytes == file.bytes
      parts == split(toLowerCase(filename), ".")
      ext == parts[Len(parts)]
  IN  IF ext = Tail(ExtZip) \/ ext = Tail(ExtPk3)
        THEN ~(Len(bytes) < 2 \/ bytes[1] # 80 \/ bytes[2] # 75)
      ELSE IF ext = Tail(ExtWad)
        THEN IF Len(bytes) < 4 THEN FALSE
             ELSE LET magic == [i \in 1..4 |-> FromCode(bytes[i])]
                  IN  ~(magic # << "I", "W", "A", "D" >> /\ magic # << "P", "W", "A", "D" >>)
      ELSE TRUE

isDownloaded(slug) == MapHas(downloads, slug)

isDownloading(slug) == slug \in downloading

\* the invocations that can be in flight
DlProcs == {1, 2}

\* the content entries that can be downloaded: wad.slug and wad.downloads[0]
WadEntries ==
  { [slug |-> << "s", "1" >>, filename |-> FileDoomWad],
    [slug |-> << "s", "2" >>, filename |-> FileModPk3] }

\* what the url of a file name can serve
Served(filename) ==
  IF filename = FileDoomWad THEN {BytesPWAD, BytesHtml} ELSE {BytesPK, BytesShort}

NoCall == [op |-> "none", pc |-> "done"]

\* a call of downloadWad(wad) that has not yet passed its first await
DownloadCall(wad) ==
  [op |-> "downloadWad", slug |-> wad.slug, filename |-> wad.filename, pc |-> "exists",
   fresh |-> FALSE, data |-> << >>, downloads |-> downloads, ledger |-> ledger]

DlAt(p, pc) == calls[p].op = "downloadWad" /\ calls[p].pc = pc

\* the call ends: what it returned or threw, and the ledger as it was when
\* the call began
DlEnd(p, outcome, error) ==
  /\ calls' = [calls EXCEPT ![p] = NoCall]
  /\ last' = [op |-> "downloadWad", slug |-> calls[p].slug, filename |-> calls[p].filename,
              outcome |-> outcome, error |-> error, fresh |-> calls[p].fresh,
              downloadsBefore |-> calls[p].downloads, ledgerBefore |-> calls[p].ledger]

\* finally { downloading.value.delete(wad.slug) }, in the branch that downloads
Finally(p) == IF calls[p].fresh THEN downloading \ {calls[p].slug} ELSE downloading

\* downloadWad(wad) is called while at most busy other calls are in flight
DlStart(p, wad, busy) ==
  /\ calls[p] = NoCall
  /\ Cardinality({q \in DlProcs : calls[q] # NoCall}) <= busy
  /\ calls' = [calls EXCEPT ![p] = DownloadCall(wad)]
  /\ last' = [op |-> "env"]
  /\ UNCHANGED << statsVars, namesVars, input, appVars >>

\* if (await exists(path)) ... else downloading.value.add(wad.slug)
DlExists(p) ==
  /\ DlAt(p, "exists")
  /\ IF library[calls[p].filename].present
       THEN /\ calls' = [calls EXCEPT ![p].pc = "validateExisting"]
            /\ UNCHANGED downloading
       ELSE /\ calls' = [calls EXCEPT ![p].pc = "fetch", ![p].fresh = TRUE]
            /\ downloading' = downloading \cup {calls[p].slug}
  /\ UNCHANGED << statsVars, namesVars, input, downloads, isRunning, last >>

\* await validateDownload(path, filename) of the file found, then, for a slug
\* not yet recorded, size it and record it in memory
DlValidateExisting(p) ==
  /\ DlAt(p, "validateExisting")
  /\ LET file == library[calls[p].filename]
     IN  IF ~file.present
           THEN DlEnd(p, "threw", "read") /\ UNCHANGED downloads
         ELSE IF ~validateDownload(file, calls[p].filename)
           THEN DlEnd(p, "threw", "invalid") /\ UNCHANGED downloads
         ELSE IF isDownloaded(calls[p].slug)
           THEN DlEnd(p, "returned", "") /\ UNCHANGED downloads
         ELSE /\ downloads' = MapSet(downloads, calls[p].slug, [filename |-> calls[p].filename])
              /\ calls' = [calls EXCEPT ![p].pc = "save"]
              /\ UNCHANGED last
  /\ UNCHANGED << statsVars, namesVars, input, downloading, isRunning >>

\* await mkdir, await tauriFetch(url), if (!response.ok) throw, await
\* response.arrayBuffer()
DlFetch(p) ==
  /\ DlAt(p, "fetch")
  /\ \/ /\ DlEnd(p, "threw", "fetch")
        /\ downloading' = Finally(p)
     \/ /\ \E data \in Served(calls[p].filename) :
             calls' = [calls EXCEPT ![p].pc = "write", ![p].data = data]
        /\ UNCHANGED << downloading, last >>
  /\ UNCHANGED << statsVars, namesVars, input, downloads, isRunning >>

\* await writeFile(path, data)
DlWrite(p) ==
  /\ DlAt(p, "write")
  /\ library' = [library EXCEPT ![calls[p].filename] = DownloadedFile(calls[p].data)]
  /\ calls' = [calls EXCEPT ![p].pc = "validate"]
  /\ UNCHANGED << statsVars, ledger, levelNamesStore, levelNamesCache, nullResolved, input,
                  appVars, last >>

\* try { await validateDownload(path, filename) } catch { ... }, and after a
\* validation that passed the slug is recorded in memory
DlValidate(p) ==
  /\ DlAt(p, "validate")
  /\ LET file == library[calls[p].filename]
     IN  IF file.present /\ validateDownload(file, calls[p].filename)
           THEN /\ downloads' = MapSet(downloads, calls[p].slug, [filename |-> calls[p].filename])
                /\ calls' = [calls EXCEPT ![p].pc = "save"]
           ELSE /\ calls' = [calls EXCEPT ![p].pc = "remove"]
                /\ UNCHANGED downloads
  /\ UNCHANGED << statsVars, namesVars, input, downloading, isRunning, last >>

\* await remove(path); throw validationError.  Removing a file that is no
\* longer there throws as well.
DlRemove(p) ==
  /\ DlAt(p, "remove")
  /\ library' = [library EXCEPT ![calls[p].filename] = NoFile]
  /\ DlEnd(p, "threw", IF library[calls[p].filename].present THEN "invalid" ELSE "remove")
  /\ downloading' = Finally(p)
  /\ UNCHANGED << statsVars, ledger, levelNamesStore, levelNamesCache, nullResolved, input,
                  downloads, isRunning >>

\* await saveState(); return path: the ledger file takes the content of
\* downloads.value, or writeTextFile throws
DlSave(p) ==
  /\ DlAt(p, "save")
  /\ \/ /\ ledger' = [state |-> "ok", downloads |-> downloads]
        /\ DlEnd(p, "returned", "")
     \/ /\ UNCHANGED ledger
        /\ DlEnd(p, "threw", "save")
  /\ downloading' = Finally(p)
  /\ UNCHANGED << statsVars, library, levelNamesStore, levelNamesCache, nullResolved, input,
                  downloads, isRunning >>

\* the library before any call: each file absent, or left by an earlier
\* download or by hand
InitDownload ==
  /\ StatsIdle
  /\ ledger = [state |-> "unreadable", downloads |-> EmptyMap]
  /\ library \in {f \in [Filenames -> {NoFile} \cup {DownloadedFile(b) :
                                         b \in {BytesPWAD, BytesPK, BytesHtml, BytesShort}}] :
                    /\ f[FileNotes] = NoFile
                    /\ \A n \in {FileDoomWad, FileModPk3} : f[n].present => f[n].bytes \in Served(n)}
  /\ levelNamesStore = [s \in Slugs |-> {}]
  /\ levelNamesCache = EmptyMap
  /\ nullResolved = {}
  /\ calls = [p \in DlProcs |-> NoCall]
  /\ AppIdle
  /\ input = << >>
  /\ last = [op |-> "init"]

\* one call at a time
NextDownload ==
  \/ \E p \in DlProcs, wad \in WadEntries : DlStart(p, wad, 0)
  \/ \E p \in DlProcs : DlExists(p)
  \/ \E p \in DlProcs : DlValidateExisting(p)
  \/ \E p \in DlProcs : DlFetch(p)
  \/ \E p \in DlProcs : DlWrite(p)
  \/ \E p \in DlProcs : DlValidate(p)
  \/ \E p \in DlProcs : DlRemove(p)
  \/ \E p \in DlProcs : DlSave(p)

SpecDownload == InitDownload /\ [][NextDownload]_vars

\* calls that overlap
NextDownloadOverlap ==
  \/ \E p \in DlProcs, wad \in WadEntries : DlStart(p, wad, 1)
  \/ \E p \in DlProcs : DlExists(p)
  \/ \E p \in DlProcs : DlValidateExisting(p)
  \/ \E p \in DlProcs : DlFetch(p)
  \/ \E p \in DlProcs : DlWrite(p)
  \/ \E p \in DlProcs : DlValidate(p)
  \/ \E p \in DlProcs : DlRemove(p)
  \/ \E p \in DlProcs : DlSave(p)

SpecDownloadOverlap == InitDownload /\ [][NextDownloadOverlap]_vars


\* a downloadWad call for the slug is between the start of its fetch and its end
InFlight(slug) ==
  \E p \in DlProcs : /\ calls[p].op = "downloadWad" /\ calls[p].slug = slug
                     /\ calls[p].fresh

\* C28: isDownloading(slug) is true exactly while some downloadWad call for
\* the slug is between the start of its fetch and its end, also when two
\* calls for one slug overlap.
C28_TracksInFlight ==
  \A slug \in Slugs : isDownloading(slug) <=> InFlight(slug)

\* one of two overlapping downloads of a slug has ended and the other one is
\* still fetching, writing, validating or saving while isDownloading(slug) is
\* false
C28_Counterexample ==
  /\ last.op = "downloadWad" /\ last.fresh
  /\ InFlight(last.slug)
  /\ ~isDownloading(last.slug)


\* the file begins with the magic bytes of its kind
HasMagic(filename, file) ==
  /\ file.present
  /\ IF filename = FileDoomWad THEN startsWith(file.bytes, BytesPWAD)
     ELSE startsWith(file.bytes, SubSeq(BytesPK, 1, 2))

\* the slugs of the ledger file
Persisted(l) == IF l.state = "ok" THEN DOMAIN l.downloads ELSE {}

MaxLaunches == 2

LaunchCall(spawn) ==
  [op |-> "launch", spawn |-> spawn, pc |-> "spawning", closed |-> FALSE, errored |-> FALSE]

\* launch(wadPath, iwad) up to "await command.spawn()": it throws when the
\* IWAD is not among the detected ones, else the handlers are registered and
\* the shell starts the process or fails to
Launch ==
  /\ Len(calls) < MaxLaunches
  /\ \/ /\ last' = [op |-> "launch", outcome |-> "threw"]
        /\ UNCHANGED calls
     \/ \E spawn \in {"ok", "failed"} :
          /\ calls' = Append(calls, LaunchCall(spawn))
          /\ last' = [op |-> "launch", outcome |-> "spawning"]
  /\ UNCHANGED << statsVars, namesVars, input, appVars >>

\* const child = await command.spawn() resumes: isRunning.value = true
SpawnReturns(i) ==
  /\ calls[i].pc = "spawning" /\ calls[i].spawn = "ok"
  /\ isRunning' = TRUE
  /\ calls' = [calls EXCEPT ![i].pc = "launched"]
  /\ last' = [op |-> "launch", outcome |-> "returned"]
  /\ UNCHANGED << statsVars, namesVars, input, downloads, downloading >>

\* catch (e) { ...; isRunning.value = false; throw e }
SpawnThrows(i) ==
  /\ calls[i].pc = "spawning" /\ calls[i].spawn = "failed"
  /\ isRunning' = FALSE
  /\ calls' = [calls EXCEPT ![i].pc = "failed"]
  /\ last' = [op |-> "launch", outcome |-> "threw"]
  /\ UNCHANGED << statsVars, namesVars, input, downloads, downloading >>

\* command.on("close", ...) is called: the process has ended
OnClose(i) ==
  /\ calls[i].spawn = "ok" /\ ~calls[i].closed
  /\ isRunning' = FALSE
  /\ calls' = [calls EXCEPT ![i].closed = TRUE]
  /\ last' = [op |-> "close"]
  /\ UNCHANGED << statsVars, namesVars, input, downloads, downloading >>

\* command.on("error", ...) is called, before the process has ended
OnError(i) ==
  /\ calls[i].spawn = "ok" /\ ~calls[i].closed /\ ~calls[i].errored
  /\ isRunning' = FALSE
  /\ calls' = [calls EXCEPT ![i].errored = TRUE]
  /\ last' = [op |-> "error"]
  /\ UNCHANGED << statsVars, namesVars, input, downloads, downloading >>

InitLaunch ==
  /\ StatsIdle
  /\ NamesIdle
  /\ CallsIdle
  /\ AppIdle
  /\ input = << >>
  /\ last = [op |-> "init"]

NextLaunch ==
  \/ Launch
  \/ \E i \in DOMAIN calls : SpawnReturns(i)
  \/ \E i \in DOMAIN calls : SpawnThrows(i)
  \/ \E i \in DOMAIN calls : OnClose(i)
  \/ \E i \in DOMAIN calls : OnError(i)

SpecLaunch == InitLaunch /\ [][NextLaunch]_vars

\* the launches whose spawn has returned and whose process has delivered
\* neither its close nor its error event
Engines == {i \in DOMAIN calls : calls[i].pc = "launched" /\ ~calls[i].closed /\ ~calls[i].errored}

\* C30: isRunning is true only while some launch has returned from a
\* successful spawn and the close or error event of its process has not been
\* delivered: it becomes true only after a spawn that succeeded, and after
\* the close or error event it is false until a later launch succeeds, in
\* whichever order the return of spawn and the event arrive.
C30_FlagFollowsProcess ==
  isRunning => Engines # {}

\* the close event of the only process was delivered before launch resumed
\* from spawn, and isRunning is true with no process left
C30_Counterexample ==
  /\ isRunning
  /\ Len(calls) = 1
  /\ calls[1].pc = "launched" /\ calls[1].closed
  /\ last = [op |-> "launch", outcome |-> "returned"]

=============================================================================
